---------------------------- MODULE Spec2Model ----------------------------
(***************************************************************************)
(* Resumable sessions and idempotent rewards of the quiz application:      *)
(* the coin ledger (stores/coins.ts), the tournament store, the standard   *)
(* and the daily session machines and the snapshot readers of each store.  *)
(***************************************************************************)
EXTENDS Integers, Sequences, FiniteSets, Bags, TLC

(***************************************************************************)
(* Bounds of the model.                                                    *)
(***************************************************************************)
\* entries the ledger-only operations may append
MaxHistory == 3
\* identifiers seededId() may hand out
MaxIds == 6
\* medal computations of completeTournament that may be pending at once
MaxPending == 1
\* correct answers a session may count
MaxScore == 3

(***************************************************************************)
(* Values shared by the stores.                                            *)
(***************************************************************************)
\* an unsupported version, as in the version-rejection scenario
BadVersion == 999

VARIABLES
    coins,         \* pinia state of useCoinsStore: balance, lifetimeEarned, history, version
    lsCoins,       \* localStorage['coins.v1']
    tour,          \* refs of useTournamentStore
    lsTournament,  \* localStorage['tournament.v1']
    pendingMedals, \* import('@/utils/awards') promises of completeTournament not yet resolved
    nextId,        \* how many identifiers seededId() has handed out
    credited,      \* history of the run: the tournament awards the ledger applied, per session and round
    quiz,          \* refs of useQuizStore
    lsSession,     \* localStorage['quizmaster:session']
    finished,      \* history of the run: the results view recorded the attempt the store holds
    daily,         \* refs of useDailyQuizStore
    lsDaily,       \* localStorage['quizmaster:daily:session']
    lsDailyMeta,   \* localStorage['quizmaster:daily:meta'], as readPersist() reads it
    scores,        \* the daily entries of the scoreboard addScore() writes, latest first
    todayKey,      \* the day getTodayKey() names
    dailyTimers,   \* the timers of the daily view that are armed: auto-next, confetti
    unlocks,       \* state of useCategoryUnlockStore
    lsUnlocks,     \* localStorage['quizmaster:categoryUnlocks.v1']
    selector,      \* history of the run: the first and the latest call of a selector, with its result
    mp,            \* state of useMultiplayerStore: players' scores, submissions, questions
    draft,         \* the form of the custom quiz editor: id, title, questions
    library,       \* state of useCustomQuizzesStore: quizzes, loaded
    lsLibrary,     \* the quizzes of localStorage['customQuizzes.v1']
    route,         \* the view the router shows
    lastCall       \* the last store operation and what it returned

coinsVars == <<coins, lsCoins>>
tourVars == <<tour, lsTournament, pendingMedals, nextId, credited>>
quizVars == <<quiz, lsSession, finished>>
dailyVars == <<daily, lsDaily, lsDailyMeta, scores, todayKey, dailyTimers>>
unlockVars == <<unlocks, lsUnlocks>>
libraryVars == <<draft, library, lsLibrary>>
vars == <<coinsVars, tourVars, quizVars, dailyVars, unlockVars, selector, mp, libraryVars, route,
          lastCall>>


Call(op, id, amount, ok) ==
    [op |-> op, id |-> id, amount |-> amount, ok |-> ok, threw |-> FALSE, hidden |-> {}]
Thrown(op, id, amount) ==
    [op |-> op, id |-> id, amount |-> amount, ok |-> FALSE, threw |-> TRUE, hidden |-> {}]

(***************************************************************************)
(* Coin ledger: useCoinsStore.                                             *)
(***************************************************************************)
COINS_VERSION == 1
\* an idempotency key: a plain string, or `${sid}:${ns}:${n}` built from a session id
CoinId(ns, sid, n) == [ns |-> ns, sid |-> sid, n |-> n]
PlainId(str) == CoinId(str, 0, 0)
EmptyId == PlainId("")
CoinIdsUsed == {EmptyId, PlainId("X"), PlainId("Y")}

CoinsInitial == [balance |-> 0, lifetimeEarned |-> 0, history |-> <<>>, version |-> COINS_VERSION]

\* no item under the key (getItem returns null)
CoinsAbsent ==
    [present |-> FALSE, balanceIsNumber |-> FALSE, balance |-> 0,
     lifetimePresent |-> FALSE, lifetimeEarned |-> 0,
     historyIsArray |-> FALSE, history |-> <<>>, hasVersion |-> FALSE, version |-> 0]

RECURSIVE SumDeltas(_)
SumDeltas(h) == IF h = <<>> THEN 0 ELSE h[1].delta + SumDeltas(Tail(h))

RECURSIVE SumPositive(_)
SumPositive(h) ==
    IF h = <<>> THEN 0
    ELSE (IF h[1].delta > 0 THEN h[1].delta ELSE 0) + SumPositive(Tail(h))

CountId(h, id) == Cardinality({i \in 1..Len(h) : h[i].id = id})

\* a ledger without the idempotency lookup: no entry is ever found
HasEntryNever(h, id) == FALSE
\* this.history.find(h => h.id === id)
HasEntry(h, id) == \E i \in 1..Len(h) : h[i].id = id

\* save(): JSON.stringify of the four state fields
CoinsPayload(c) ==
    [present |-> TRUE, balanceIsNumber |-> TRUE, balance |-> c.balance,
     lifetimePresent |-> TRUE, lifetimeEarned |-> c.lifetimeEarned,
     historyIsArray |-> TRUE, history |-> c.history, hasVersion |-> TRUE, version |-> c.version]

\* add(delta, reason, id): the state after the call and whether it appended
AddedCoins(c, delta, id) ==
    [c EXCEPT !.history = Append(@, [id |-> id, delta |-> delta, spend |-> FALSE]),
              !.balance = @ + delta,
              !.lifetimeEarned = IF delta > 0 THEN @ + delta ELSE @]

AddApplies(c, id) == id # EmptyId /\ ~HasEntry(c.history, id)

\* the ledger and the stored value after add(delta, reason, id)
LedgerAfterAdd(c, ls, delta, id) ==
    IF AddApplies(c, id)
    THEN [state |-> AddedCoins(c, delta, id), stored |-> CoinsPayload(AddedCoins(c, delta, id))]
    ELSE [state |-> c, stored |-> ls]

CoinsAdd(delta, id) ==
    /\ AddApplies(coins, id) => Len(coins.history) < MaxHistory
    /\ coins' = LedgerAfterAdd(coins, lsCoins, delta, id).state
    /\ lsCoins' = LedgerAfterAdd(coins, lsCoins, delta, id).stored
    /\ lastCall' = Call("add", id, delta, AddApplies(coins, id))
    /\ UNCHANGED <<tourVars, quizVars, dailyVars, unlockVars, selector, libraryVars, mp, route>>

\* add(delta, reason, id) while localStorage is full: save() has no try, so the
\* QuotaExceededError of setItem leaves add() after history, balance and lifetimeEarned were
\* updated; the stored value stays as it was
CoinsAddQuotaExceeded(delta, id) ==
    /\ AddApplies(coins, id) => Len(coins.history) < MaxHistory
    /\ coins' = LedgerAfterAdd(coins, lsCoins, delta, id).state
    /\ lastCall' = IF AddApplies(coins, id) THEN Thrown("add", id, delta)
                   ELSE Call("add", id, delta, FALSE)
    /\ UNCHANGED lsCoins
    /\ UNCHANGED <<tourVars, quizVars, dailyVars, unlockVars, selector, libraryVars, mp, route>>

\* spend(amount, id): the three early returns, then the push
SpendReturnsEarly(c, amount, id) ==
    \/ amount <= 0
    \/ c.balance < amount
    \/ (id # EmptyId /\ HasEntry(c.history, id))

\* a spend that records its entry and leaves the balance alone
SpentCoinsKeepBalance(c, amount, id) ==
    [c EXCEPT !.history = Append(@, [id |-> id, delta |-> -amount, spend |-> TRUE])]
\* history.push({id, delta: -amount}); balance -= amount
SpentCoins(c, amount, id) ==
    [c EXCEPT !.history = Append(@, [id |-> id, delta |-> -amount, spend |-> TRUE]),
              !.balance = @ - amount]

CoinsSpend(amount, id) ==
    /\ ~SpendReturnsEarly(coins, amount, id) => Len(coins.history) < MaxHistory
    /\ IF SpendReturnsEarly(coins, amount, id)
       THEN UNCHANGED <<coins, lsCoins>>
       ELSE /\ coins' = SpentCoins(coins, amount, id)
            /\ lsCoins' = CoinsPayload(coins')
    /\ lastCall' = Call("spend", id, amount,
                        IF amount <= 0 THEN TRUE
                        ELSE IF coins.balance < amount THEN FALSE
                        ELSE TRUE)
    /\ UNCHANGED <<tourVars, quizVars, dailyVars, unlockVars, selector, libraryVars, mp, route>>

CoinsReset ==
    /\ coins' = CoinsInitial
    /\ lsCoins' = CoinsPayload(coins')
    /\ lastCall' = Call("reset", EmptyId, 0, TRUE)
    /\ UNCHANGED <<tourVars, quizVars, dailyVars, unlockVars, selector, libraryVars, mp, route>>

CoinsSave ==
    /\ lsCoins' = CoinsPayload(coins)
    /\ UNCHANGED coins
    /\ lastCall' = Call("save", EmptyId, 0, TRUE)
    /\ UNCHANGED <<tourVars, quizVars, dailyVars, unlockVars, selector, libraryVars, mp, route>>

\* load(): which stored values are taken over
LoadAccepts(ls) == ls.present /\ ls.balanceIsNumber
\* parsed.lifetimeEarned ?? parsed.history.filter(...).reduce(...) throws on a missing history
LoadThrows(ls) == LoadAccepts(ls) /\ ~ls.lifetimePresent /\ ~ls.historyIsArray

\* the ledger and the stored value after load()
LedgerAfterLoad(c, ls) ==
    IF LoadThrows(ls) THEN [state |-> [c EXCEPT !.balance = ls.balance], stored |-> ls]
    ELSE IF LoadAccepts(ls)
    THEN [state |-> [balance |-> ls.balance,
                     lifetimeEarned |-> IF ls.lifetimePresent THEN ls.lifetimeEarned
                                        ELSE SumPositive(ls.history),
                     history |-> IF ls.historyIsArray THEN ls.history ELSE <<>>,
                     version |-> COINS_VERSION],
          stored |-> ls]
    ELSE [state |-> c, stored |-> CoinsPayload(c)]

CoinsLoad ==
    /\ coins' = LedgerAfterLoad(coins, lsCoins).state
    /\ lsCoins' = LedgerAfterLoad(coins, lsCoins).stored
    /\ lastCall' = IF LoadThrows(lsCoins) THEN Thrown("load", EmptyId, 0)
                   ELSE Call("load", EmptyId, 0, LoadAccepts(lsCoins))
    /\ UNCHANGED <<tourVars, quizVars, dailyVars, unlockVars, selector, libraryVars, mp, route>>


\* try { ensureCoinsLoaded(); coins.add(delta, 'bonus', id) } catch { warn }
EnsureLoadedThenAdd(c, ls, delta, id) ==
    LET \* ensureCoinsLoaded(): load() when the in-memory ledger looks untouched
        e == IF Len(c.history) = 0 /\ c.balance = 0 /\ c.lifetimeEarned = 0
             THEN [state |-> LedgerAfterLoad(c, ls).state,
                   stored |-> LedgerAfterLoad(c, ls).stored,
                   threw |-> LoadThrows(ls)]
             ELSE [state |-> c, stored |-> ls, threw |-> FALSE]
    IN
    IF e.threw THEN [state |-> e.state, stored |-> e.stored, applied |-> FALSE]
    ELSE [state |-> LedgerAfterAdd(e.state, e.stored, delta, id).state,
          stored |-> LedgerAfterAdd(e.state, e.stored, delta, id).stored,
          applied |-> AddApplies(e.state, id)]

(***************************************************************************)
(* Tournament: useTournamentStore.                                         *)
(***************************************************************************)
TOURNAMENT_VERSION == 1
ROUNDS_TOTAL == 10
ROUND_COINS == 3
COMPLETE_COINS == 20
\* a missing or empty seed / sessionId of a stored state
NoId == 0

\* the refs of a store created by defineStore: seed and sessionId from seededId()
TourFresh(seedId, sessId) ==
    [isActive |-> FALSE, roundsTotal |-> ROUNDS_TOTAL, currentRound |-> 0,
     category |-> "gk", seed |-> seedId, roundStats |-> <<>>,
     hasPlayers |-> FALSE, playerScore |-> 0, completed |-> FALSE,
     medalsEarned |-> <<>>, sessionId |-> sessId,
     epoch |-> sessId]   \* history of the run: the id the session was created with

TournamentAbsent ==
    [present |-> FALSE, hasVersion |-> FALSE, version |-> 0, state |-> TourFresh(NoId, NoId)]

\* savePersisted(toState()): { version: STORAGE_VERSION, state }
TourPersisted(t) ==
    [present |-> TRUE, hasVersion |-> TRUE, version |-> TOURNAMENT_VERSION, state |-> t]

\* loadPersisted(): null, obj.state of a version-1 wrapper, or the raw object itself
LoadPersistedOk(ls) ==
    /\ ls.present
    /\ ls.hasVersion => ls.version = TOURNAMENT_VERSION

\* a tournament that draws a new session id on every load
KeepsSessionIdNever(s) == FALSE
\* s.sessionId || seededId()
KeepsSessionId(s) == s.sessionId # NoId

\* fromState(s), n identifiers having been handed out: the refs and the identifiers used
FromState(s, n) ==
    LET seedNew == s.seed = NoId
        n1 == IF seedNew THEN n + 1 ELSE n
        sessNew == ~KeepsSessionId(s)
        n2 == IF sessNew THEN n1 + 1 ELSE n1
    IN [state |-> [s EXCEPT !.seed = IF seedNew THEN n1 ELSE s.seed,
                            !.sessionId = IF sessNew THEN n2 ELSE s.sessionId],
        used |-> n2]

\* Math.round((correct / totalAnswered) * 100)
AccuracyPct(correct, wrong) ==
    IF correct + wrong > 0
    THEN (200 * correct + (correct + wrong)) \div (2 * (correct + wrong))
    ELSE 0

RECURSIVE SumField(_, _)
SumField(stats, f) == IF stats = <<>> THEN 0 ELSE stats[1][f] + SumField(Tail(stats), f)

RECURSIVE FlatDurations(_)
FlatDurations(stats) ==
    IF stats = <<>> THEN <<>> ELSE stats[1].durations \o FlatDurations(Tail(stats))

RECURSIVE SumSeq(_)
SumSeq(q) == IF q = <<>> THEN 0 ELSE q[1] + SumSeq(Tail(q))

\* a Diamond test with a strict time bound
ComputeMedalsUnderSixSeconds(inp) ==
    LET answered == inp.totalCorrect + inp.totalWrong
        denom == answered + inp.totalSkipped
        AccAtLeast(k) == IF denom > 0 THEN answered > 0 /\ 100 * inp.totalCorrect >= k * answered
                         ELSE 0 >= k
        finite == SelectSeq(inp.durations, LAMBDA d : d >= 0)
        fast == Len(finite) > 0 /\ SumSeq(finite) < 6000 * Len(finite)
    IN (IF inp.roundsPlayed >= inp.roundsTotal /\ inp.roundsTotal > 0 THEN <<"Bronze">> ELSE <<>>)
       \o (IF AccAtLeast(70) THEN <<"Silver">> ELSE <<>>)
       \o (IF AccAtLeast(85) THEN <<"Gold">> ELSE <<>>)
       \o (IF AccAtLeast(95) /\ fast THEN <<"Diamond">> ELSE <<>>)

\* computeMedals(inp); the accuracy of an input with skips only is NaN and passes no test.
\* A duration is a count of milliseconds; one that is not finite (NaN, Infinity) is written
\* -1 here. avgMs is the sum of the finite durations over their number: Infinity without
\* durations, NaN (0 / 0) when none of them is finite, and neither is <= 6000.
ComputeMedals(inp) ==
    LET answered == inp.totalCorrect + inp.totalWrong
        denom == answered + inp.totalSkipped
        AccAtLeast(k) == IF denom > 0 THEN answered > 0 /\ 100 * inp.totalCorrect >= k * answered
                         ELSE 0 >= k
        finite == SelectSeq(inp.durations, LAMBDA d : d >= 0)
        fast == Len(finite) > 0 /\ SumSeq(finite) <= 6000 * Len(finite)
    IN (IF inp.roundsPlayed >= inp.roundsTotal /\ inp.roundsTotal > 0 THEN <<"Bronze">> ELSE <<>>)
       \o (IF AccAtLeast(70) THEN <<"Silver">> ELSE <<>>)
       \o (IF AccAtLeast(85) THEN <<"Gold">> ELSE <<>>)
       \o (IF AccAtLeast(95) /\ fast THEN <<"Diamond">> ELSE <<>>)

\* `${sessionId}:round:${currentRound + 1}` and `${sessionId}:tournament-complete`
RoundAwardId(t) == CoinId("round", t.sessionId, t.currentRound + 1)
CompleteAwardId(t) == CoinId("tournament-complete", t.sessionId, 0)

\* roundStats after "push or replace" of the stat rs
PutRoundStat(stats, rs) ==
    IF \E i \in 1..Len(stats) : stats[i].round = rs.round
    THEN LET idx == CHOOSE i \in 1..Len(stats) :
                      /\ stats[i].round = rs.round
                      /\ \A j \in 1..(i - 1) : stats[j].round # rs.round
         IN [stats EXCEPT ![idx] = rs]
    ELSE Append(stats, rs)

StartTournament(cat) ==
    /\ nextId + 2 <= MaxIds
    /\ tour' = [TourFresh(nextId + 1, nextId + 2) EXCEPT
                  !.category = cat, !.isActive = TRUE, !.hasPlayers = TRUE]
    /\ nextId' = nextId + 2
    /\ lsTournament' = TourPersisted(tour')
    /\ lastCall' = Call("startTournament", EmptyId, 0, TRUE)
    /\ UNCHANGED <<pendingMedals, credited, coinsVars>>
    /\ UNCHANGED <<quizVars, dailyVars, unlockVars, selector, libraryVars, mp, route>>

ResetTournament ==
    /\ nextId + 2 <= MaxIds
    /\ tour' = [TourFresh(nextId + 1, nextId + 2) EXCEPT !.category = tour.category]
    /\ nextId' = nextId + 2
    /\ lsTournament' = TourPersisted(tour')
    /\ lastCall' = Call("resetTournament", EmptyId, 0, TRUE)
    /\ UNCHANGED <<pendingMedals, credited, coinsVars>>
    /\ UNCHANGED <<quizVars, dailyVars, unlockVars, selector, libraryVars, mp, route>>

LoadIfAvailable ==
    /\ LoadPersistedOk(lsTournament) => FromState(lsTournament.state, nextId).used <= MaxIds
    /\ IF LoadPersistedOk(lsTournament)
       THEN /\ tour' = FromState(lsTournament.state, nextId).state
            /\ nextId' = FromState(lsTournament.state, nextId).used
       ELSE UNCHANGED <<tour, nextId>>
    /\ lastCall' = Call("loadIfAvailable", EmptyId, 0, LoadPersistedOk(lsTournament))
    /\ UNCHANGED <<lsTournament, pendingMedals, credited, coinsVars>>
    /\ UNCHANGED <<quizVars, dailyVars, unlockVars, selector, libraryVars, mp, route>>

\* startNextRound(): throws unless active and not completed, else persist()
StartNextRound ==
    /\ IF tour.isActive /\ ~tour.completed
       THEN /\ lsTournament' = TourPersisted(tour)
            /\ lastCall' = Call("startNextRound", EmptyId, tour.currentRound + 1, TRUE)
       ELSE /\ UNCHANGED lsTournament
            /\ lastCall' = Thrown("startNextRound", EmptyId, 0)
    /\ UNCHANGED <<tour, pendingMedals, nextId, credited, coinsVars>>
    /\ UNCHANGED <<quizVars, dailyVars, unlockVars, selector, libraryVars, mp, route>>

RecordRoundResult(meta) ==
    LET rs == [round |-> tour.currentRound + 1, correct |-> meta.correct, wrong |-> meta.wrong,
               skipped |-> meta.skipped, durations |-> meta.durations,
               accuracyPct |-> AccuracyPct(meta.correct, meta.wrong)]
        stats == PutRoundStat(tour.roundStats, rs)
        led == EnsureLoadedThenAdd(coins, lsCoins, ROUND_COINS, RoundAwardId(tour))
    IN /\ tour' = [tour EXCEPT
                     !.roundStats = stats,
                     !.playerScore = IF tour.hasPlayers THEN SumField(stats, "correct") ELSE @,
                     !.currentRound = IF @ < tour.roundsTotal - 1 THEN @ + 1 ELSE @]
       /\ coins' = led.state
       /\ lsCoins' = led.stored
       /\ credited' = IF led.applied
                      THEN credited (+) SetToBag({<<tour.epoch, tour.currentRound + 1>>})
                      ELSE credited
       /\ lsTournament' = TourPersisted(tour')
       /\ lastCall' = Call("recordRoundResult", RoundAwardId(tour), ROUND_COINS, led.applied)
       /\ UNCHANGED <<pendingMedals, nextId>>
       /\ UNCHANGED <<quizVars, dailyVars, unlockVars, selector, libraryVars, mp, route>>

\* completeTournament(): the totals are captured now, the medals are set when the import resolves
CompleteTournament ==
    LET led == EnsureLoadedThenAdd(coins, lsCoins, COMPLETE_COINS, CompleteAwardId(tour))
        captured == [totalCorrect |-> SumField(tour.roundStats, "correct"),
                     totalWrong |-> SumField(tour.roundStats, "wrong"),
                     totalSkipped |-> SumField(tour.roundStats, "skipped"),
                     durations |-> FlatDurations(tour.roundStats)]
    IN /\ Len(pendingMedals) < MaxPending
       /\ tour' = [tour EXCEPT !.completed = TRUE]
       /\ pendingMedals' = Append(pendingMedals, captured)
       /\ coins' = led.state
       /\ lsCoins' = led.stored
       /\ credited' = IF led.applied
                      THEN credited (+) SetToBag({<<tour.epoch, 0>>})
                      ELSE credited
       /\ lsTournament' = TourPersisted(tour')
       /\ lastCall' = Call("completeTournament", CompleteAwardId(tour), COMPLETE_COINS, led.applied)
       /\ UNCHANGED nextId
       /\ UNCHANGED <<quizVars, dailyVars, unlockVars, selector, libraryVars, mp, route>>

\* the play view calls the store only while a tournament is active: its onMounted leaves for
\* the lobby otherwise
PlayRecordRoundResult(meta) == tour.isActive /\ RecordRoundResult(meta)

PlayCompleteTournament == tour.isActive /\ CompleteTournament

\* TournamentPlayView.continueToNext(): recordRoundResult(aggregateRound()), then
\* completeTournament() and the results route if currentRound >= roundsTotal - 1, else
\* startRound(), whose startNextRound() persists. The view is mounted on an active tournament.
ContinueToNext(meta) ==
    LET rs == [round |-> tour.currentRound + 1, correct |-> meta.correct, wrong |-> meta.wrong,
               skipped |-> meta.skipped, durations |-> meta.durations,
               accuracyPct |-> AccuracyPct(meta.correct, meta.wrong)]
        stats == PutRoundStat(tour.roundStats, rs)
        recorded == [tour EXCEPT
                       !.roundStats = stats,
                       !.playerScore = IF tour.hasPlayers THEN SumField(stats, "correct") ELSE @,
                       !.currentRound = IF @ < tour.roundsTotal - 1 THEN @ + 1 ELSE @]
        led == EnsureLoadedThenAdd(coins, lsCoins, ROUND_COINS, RoundAwardId(tour))
        last == recorded.currentRound >= recorded.roundsTotal - 1
        ledLast == EnsureLoadedThenAdd(led.state, led.stored, COMPLETE_COINS,
                                       CompleteAwardId(recorded))
        captured == [totalCorrect |-> SumField(stats, "correct"),
                     totalWrong |-> SumField(stats, "wrong"),
                     totalSkipped |-> SumField(stats, "skipped"),
                     durations |-> FlatDurations(stats)]
    IN /\ tour.isActive /\ ~tour.completed
       /\ last => Len(pendingMedals) < MaxPending
       /\ tour' = IF last THEN [recorded EXCEPT !.completed = TRUE] ELSE recorded
       /\ pendingMedals' = IF last THEN Append(pendingMedals, captured) ELSE pendingMedals
       /\ coins' = IF last THEN ledLast.state ELSE led.state
       /\ lsCoins' = IF last THEN ledLast.stored ELSE led.stored
       /\ credited' = credited
                      (+) (IF led.applied THEN SetToBag({<<tour.epoch, tour.currentRound + 1>>})
                           ELSE EmptyBag)
                      (+) (IF last /\ ledLast.applied THEN SetToBag({<<tour.epoch, 0>>})
                           ELSE EmptyBag)
       /\ lsTournament' = TourPersisted(tour')
       /\ route' = IF last THEN "tournament-results" ELSE "tournament-play"
       /\ lastCall' = Call("continueToNext", RoundAwardId(tour), Len(stats), last)
       /\ UNCHANGED nextId
       /\ UNCHANGED <<quizVars, dailyVars, unlockVars, selector, libraryVars, mp>>

\* import('@/utils/awards').then(...): medalsEarned.value = medals; persist()
MedalsResolved ==
    /\ pendingMedals # <<>>
    /\ LET c == Head(pendingMedals) IN
         tour' = [tour EXCEPT !.medalsEarned =
                    ComputeMedals([totalCorrect |-> c.totalCorrect, totalWrong |-> c.totalWrong,
                                   totalSkipped |-> c.totalSkipped, durations |-> c.durations,
                                   roundsPlayed |-> Len(tour.roundStats),
                                   roundsTotal |-> tour.roundsTotal])]
    /\ pendingMedals' = Tail(pendingMedals)
    /\ lsTournament' = TourPersisted(tour')
    /\ lastCall' = Call("medalsResolved", EmptyId, 0, TRUE)
    /\ UNCHANGED <<nextId, credited, coinsVars>>
    /\ UNCHANGED <<quizVars, dailyVars, unlockVars, selector, libraryVars, mp, route>>

(***************************************************************************)
(* Standard session: useQuizStore and the views that drive it.             *)
(***************************************************************************)
SESSION_VERSION == 3
ACCEPTED_SESSION_VERSIONS == {1, 2, SESSION_VERSION}
\* useExtraTime(): BASE and EXT seconds
EXTRA_BASE == 20
EXTRA_EXT == 15
\* null or undefined where a number may stand: selectedIndex, a timer, a missing map entry
None == -1
\* the 'SKIPPED' entry of selectedAnswers
Skipped == -2

Question(id, n, a) ==
    [id |-> id, nOptions |-> n, answerIndex |-> a, wellFormed |-> TRUE, hasHint |-> TRUE]

\* fallbackPools.gk: gk-1, gk-2, gk-3
GkPool == <<Question(1, 4, 1), Question(2, 3, 1), Question(3, 4, 3)>>
\* the questions a backend answers with: hint (or clue) is optional in a question
BackendPool == <<[Question(1, 3, 0) EXCEPT !.hasHint = FALSE], Question(2, 4, 2)>>
QIds == {GkPool[i].id : i \in 1..Len(GkPool)}

\* the option indexes a player selects
SelectInputs == {1, 3}

QuizInitial ==
    [questions |-> <<>>, currentIndex |-> 0, score |-> 0, selectedIndex |-> None,
     hasSubmitted |-> FALSE, selectedCategory |-> "gk", started |-> FALSE,
     loading |-> FALSE, fetch |-> "none",
     selectedAnswers |-> [q \in QIds |-> None],
     lifelines |-> [fiftyFiftyUsed |-> FALSE, skipUsed |-> FALSE,
                    extraTimeUsed |-> FALSE, askHintUsed |-> FALSE],
     fiftyFiftyHidden |-> [q \in QIds |-> {}], hintShown |-> [q \in QIds |-> FALSE],
     timers |-> [q \in QIds |-> None],
     timerState |-> [remaining |-> None, extraGranted |-> FALSE]]

ResetRuntime(q) ==
    [QuizInitial EXCEPT !.questions = q.questions, !.selectedCategory = q.selectedCategory,
                        !.loading = q.loading, !.fetch = q.fetch]

\* current: questions[currentIndex] || null
HasCurrent(q) == q.currentIndex \in 0..(Len(q.questions) - 1)
Current(q) == q.questions[q.currentIndex + 1]
IsLast(q) == q.currentIndex >= Len(q.questions) - 1

SessionAbsent ==
    [present |-> FALSE, hasVersion |-> FALSE, version |-> 0,
     questionsIsArray |-> FALSE, questions |-> <<>>,
     currentIndexIsNumber |-> FALSE, currentIndex |-> 0,
     scoreIsNumber |-> FALSE, score |-> 0,
     categoryOk |-> FALSE, timesOk |-> FALSE,
     answersIsObject |-> FALSE, selectedAnswers |-> QuizInitial.selectedAnswers,
     hasLifelines |-> FALSE, lifelines |-> QuizInitial.lifelines,
     fiftyFiftyHidden |-> QuizInitial.fiftyFiftyHidden, hintShown |-> QuizInitial.hintShown,
     timers |-> QuizInitial.timers]

\* buildSession() first stores the running timer of the current question in timers
WithTimerSaved(q) ==
    IF HasCurrent(q) /\ q.timerState.remaining # None
    THEN [q EXCEPT !.timers[Current(q).id] = q.timerState.remaining]
    ELSE q

\* the SessionSchema buildSession() returns for a store with questions
SessionPayload(q) ==
    [present |-> TRUE, hasVersion |-> TRUE, version |-> SESSION_VERSION,
     questionsIsArray |-> TRUE, questions |-> q.questions,
     currentIndexIsNumber |-> TRUE, currentIndex |-> q.currentIndex,
     scoreIsNumber |-> TRUE, score |-> q.score,
     categoryOk |-> TRUE, timesOk |-> TRUE,
     answersIsObject |-> TRUE, selectedAnswers |-> q.selectedAnswers,
     hasLifelines |-> TRUE, lifelines |-> q.lifelines,
     fiftyFiftyHidden |-> q.fiftyFiftyHidden, hintShown |-> q.hintShown, timers |-> q.timers]

\* persistSession(): safeWriteSession(buildSession()); a store without questions removes the item
PersistSession(q) ==
    IF Len(q.questions) = 0
    THEN [state |-> q, stored |-> SessionAbsent]
    ELSE [state |-> WithTimerSaved(q), stored |-> SessionPayload(WithTimerSaved(q))]

Min(a, b) == IF a < b THEN a ELSE b
Max(a, b) == IF a > b THEN a ELSE b

\* the questions safeReadSession() keeps: those passing the minimal schema test
KeptQuestions(ls) == SelectSeq(ls.questions, LAMBDA x : x.wellFormed)

\* safeReadSession() !== null
SafeReadOk(ls) ==
    /\ ls.present
    /\ ls.hasVersion /\ ls.version \in ACCEPTED_SESSION_VERSIONS
    /\ ls.questionsIsArray
    /\ ls.currentIndexIsNumber
    /\ ls.scoreIsNumber
    /\ ls.categoryOk
    /\ ls.timesOk
    /\ ls.answersIsObject
    /\ Len(KeptQuestions(ls)) > 0

\* resumeIfAvailable() on an accepted stored value
Hydrated(q, ls) ==
    LET \* the SessionSchema safeReadSession() returns when it accepts the stored value
        saved == [questions |-> KeptQuestions(ls),
                  currentIndex |-> Max(0, Min(ls.currentIndex, Len(KeptQuestions(ls)) - 1)),
                  selectedAnswers |-> ls.selectedAnswers,
                  score |-> Max(0, ls.score),
                  lifelines |-> IF ls.hasLifelines THEN ls.lifelines
                                ELSE QuizInitial.lifelines,
                  fiftyFiftyHidden |-> ls.fiftyFiftyHidden,
                  hintShown |-> ls.hintShown,
                  timers |-> ls.timers]
        curId == saved.questions[saved.currentIndex + 1].id
        prev == IF curId \in QIds THEN saved.selectedAnswers[curId] ELSE None
    IN [q EXCEPT
          !.questions = saved.questions,
          !.currentIndex = saved.currentIndex,
          !.score = saved.score,
          !.selectedAnswers = saved.selectedAnswers,
          !.started = TRUE,
          !.lifelines = saved.lifelines,
          !.fiftyFiftyHidden = saved.fiftyFiftyHidden,
          !.hintShown = saved.hintShown,
          !.timers = saved.timers,
          !.selectedIndex = IF prev >= 0 THEN prev ELSE None,
          !.timerState = [remaining |-> IF curId \in QIds THEN saved.timers[curId] ELSE None,
                          extraGranted |-> FALSE],
          !.hasSubmitted = FALSE,
          !.loading = FALSE]

\* a resume that leaves the lifelines of the snapshot behind
ResumedLifelinesLost(q, ls) ==
    IF SafeReadOk(ls) THEN [Hydrated(q, ls) EXCEPT !.lifelines = QuizInitial.lifelines] ELSE q
\* resumeIfAvailable(): nothing happens unless safeReadSession() accepts the stored value
Resumed(q, ls) == IF SafeReadOk(ls) THEN Hydrated(q, ls) ELSE q

\* loadQuestions() without a backend: the fallback pool, startedAt, persistSession()
LoadedQuestions(q) == [q EXCEPT !.questions = GkPool, !.started = TRUE]

\* StartView: hasSession, the computed hasSavedSession()
QuizHasSavedSession ==
    /\ route = "start"
    /\ lastCall' = Call("hasSavedSession", EmptyId, 0, SafeReadOk(lsSession))
    /\ UNCHANGED <<quizVars, route>>
    /\ UNCHANGED <<coinsVars, tourVars, dailyVars, unlockVars, selector, libraryVars, mp>>

\* resumeIfAvailable(), as StartView.resume calls it
QuizResumeIfAvailable ==
    /\ route = "start"
    /\ quiz' = Resumed(quiz, lsSession)
    /\ lastCall' = Call("resumeIfAvailable", EmptyId, 0, SafeReadOk(lsSession))
    /\ UNCHANGED <<lsSession, finished, route>>
    /\ UNCHANGED <<coinsVars, tourVars, dailyVars, unlockVars, selector, libraryVars, mp>>

\* StartView.start(): resetSession() over a saved session, resetRuntime(), loadQuestions(),
\* then the quiz view
StartQuiz ==
    /\ route = "start"
    /\ LET q1 == LoadedQuestions(ResetRuntime(quiz))
       IN /\ quiz' = PersistSession(q1).state
          /\ lsSession' = PersistSession(q1).stored
    /\ finished' = FALSE
    /\ route' = "quiz"
    /\ lastCall' = Call("start", EmptyId, 0, TRUE)
    /\ UNCHANGED <<coinsVars, tourVars, dailyVars, unlockVars, selector, libraryVars, mp>>

\* router.push({ name: 'quiz' }) with questions in the store: the guard and ensureHydrated()
\* of the quiz view have nothing to resume or load
OpenQuizView ==
    /\ route \in {"start", "results"}
    /\ Len(quiz.questions) > 0
    /\ route' = "quiz"
    /\ lastCall' = Call("openQuiz", EmptyId, 0, TRUE)
    /\ UNCHANGED quizVars
    /\ UNCHANGED <<coinsVars, tourVars, dailyVars, unlockVars, selector, libraryVars, mp>>

\* exitQuiz(): the saved session is kept
ExitQuiz ==
    /\ route = "quiz"
    /\ route' = "start"
    /\ lastCall' = Call("exitQuiz", EmptyId, 0, TRUE)
    /\ UNCHANGED quizVars
    /\ UNCHANGED <<coinsVars, tourVars, dailyVars, unlockVars, selector, libraryVars, mp>>

Touched(q, op, arg, ok) ==
    /\ quiz' = PersistSession(q).state
    /\ lsSession' = PersistSession(q).stored
    /\ lastCall' = Call(op, EmptyId, arg, ok)

Untouched(op, arg) ==
    /\ UNCHANGED <<quiz, lsSession>>
    /\ lastCall' = Call(op, EmptyId, arg, FALSE)

QuizSelectOption(index) ==
    /\ route = "quiz"
    /\ HasCurrent(quiz) /\ index < Current(quiz).nOptions
    /\ IF quiz.hasSubmitted
       THEN Untouched("selectOption", index)
       ELSE Touched([quiz EXCEPT !.selectedIndex = index], "selectOption", index, TRUE)
    /\ UNCHANGED <<finished, route>>
    /\ UNCHANGED <<coinsVars, tourVars, dailyVars, unlockVars, selector, libraryVars, mp>>

\* a submitAnswer that scores whatever was selected
ScoredAlways(q, correct) == q.score + 1
\* score.value += 1 when correct
Scored(q, correct) == IF correct THEN q.score + 1 ELSE q.score

QuizSubmitAnswer ==
    /\ route = "quiz"
    /\ quiz.score < MaxScore
    /\ IF quiz.selectedIndex = None \/ ~HasCurrent(quiz)
       THEN Untouched("submitAnswer", quiz.selectedIndex)
       ELSE LET correct == quiz.selectedIndex = Current(quiz).answerIndex IN
            Touched([quiz EXCEPT !.hasSubmitted = TRUE,
                                 !.score = Scored(quiz, correct),
                                 !.selectedAnswers[Current(quiz).id] = quiz.selectedIndex],
                    "submitAnswer", quiz.selectedIndex, correct)
    /\ UNCHANGED <<finished, route>>
    /\ UNCHANGED <<coinsVars, tourVars, dailyVars, unlockVars, selector, libraryVars, mp>>

\* a nextQuestion() that advances without a submitted answer
CanAdvanceUnsubmitted(s) == s.currentIndex < Len(s.questions) - 1
\* if (!hasSubmitted.value) return false; if (currentIndex.value < total.value - 1) ...
CanAdvance(s) == s.hasSubmitted /\ s.currentIndex < Len(s.questions) - 1

QuizNextQuestion ==
    /\ route = "quiz"
    /\ IF CanAdvance(quiz)
       THEN LET qid == quiz.questions[quiz.currentIndex + 2].id IN
            Touched([quiz EXCEPT !.currentIndex = @ + 1,
                                 !.selectedIndex = None,
                                 !.hasSubmitted = FALSE,
                                 !.timerState = [remaining |-> quiz.timers[qid],
                                                 extraGranted |-> FALSE]],
                    "nextQuestion", 0, TRUE)
       ELSE Untouched("nextQuestion", 0)
    /\ UNCHANGED <<finished, route>>
    /\ UNCHANGED <<coinsVars, tourVars, dailyVars, unlockVars, selector, libraryVars, mp>>

\* a fifty-fifty that draws from all the options
HiddenChoicesOfAll(q) ==
    LET pool == 0..(Current(q).nOptions - 1)
    IN {h \in SUBSET pool : Cardinality(h) = Min(2, Cardinality(pool))}
\* the two wrong options useFiftyFifty() may hide
HiddenChoices(q) ==
    LET cur == Current(q)
        wrongs == {i \in 0..(cur.nOptions - 1) : i # cur.answerIndex}
        notSelected == wrongs \ {q.selectedIndex}
        pool == IF Cardinality(notSelected) >= 2 THEN notSelected ELSE wrongs
    IN {h \in SUBSET pool : Cardinality(h) = Min(2, Cardinality(pool))}

UseFiftyFifty ==
    /\ route = "quiz"
    /\ IF ~HasCurrent(quiz) \/ quiz.lifelines.fiftyFiftyUsed
       THEN Untouched("useFiftyFifty", 0)
       ELSE IF quiz.fiftyFiftyHidden[Current(quiz).id] # {}
       THEN /\ UNCHANGED <<quiz, lsSession>>
            /\ lastCall' = [Call("useFiftyFifty", EmptyId, 0, TRUE) EXCEPT
                               !.hidden = quiz.fiftyFiftyHidden[Current(quiz).id]]
       ELSE \E hidden \in HiddenChoices(quiz) :
              LET q1 == [quiz EXCEPT !.fiftyFiftyHidden[Current(quiz).id] = hidden,
                                     !.lifelines.fiftyFiftyUsed = TRUE]
              IN /\ quiz' = PersistSession(q1).state
                 /\ lsSession' = PersistSession(q1).stored
                 /\ lastCall' = [Call("useFiftyFifty", EmptyId, 0, TRUE) EXCEPT
                                    !.hidden = hidden]
    /\ UNCHANGED <<finished, route>>
    /\ UNCHANGED <<coinsVars, tourVars, dailyVars, unlockVars, selector, libraryVars, mp>>

UseSkipQuestion ==
    /\ route = "quiz"
    /\ IF ~HasCurrent(quiz) \/ quiz.lifelines.skipUsed
       THEN Untouched("useSkipQuestion", 0)
       ELSE Touched([quiz EXCEPT !.selectedAnswers[Current(quiz).id] = Skipped,
                                 !.lifelines.skipUsed = TRUE,
                                 !.hasSubmitted = TRUE],
                    "useSkipQuestion", 0, TRUE)
    /\ UNCHANGED <<finished, route>>
    /\ UNCHANGED <<coinsVars, tourVars, dailyVars, unlockVars, selector, libraryVars, mp>>

\* the seconds useExtraTime() leaves on the timer of the current question
ExtendedTime(q) ==
    (IF q.timerState.remaining # None THEN q.timerState.remaining
     ELSE IF q.timers[Current(q).id] # None THEN q.timers[Current(q).id]
     ELSE EXTRA_BASE) + EXTRA_EXT

UseExtraTime ==
    /\ route = "quiz"
    /\ IF ~HasCurrent(quiz) \/ quiz.lifelines.extraTimeUsed
       THEN Untouched("useExtraTime", 0)
       ELSE Touched([quiz EXCEPT !.timerState = [remaining |-> ExtendedTime(quiz),
                                                 extraGranted |-> TRUE],
                                 !.timers[Current(quiz).id] = ExtendedTime(quiz),
                                 !.lifelines.extraTimeUsed = TRUE],
                    "useExtraTime", 0, TRUE)
    /\ UNCHANGED <<finished, route>>
    /\ UNCHANGED <<coinsVars, tourVars, dailyVars, unlockVars, selector, libraryVars, mp>>

TickTimer(delta) ==
    /\ route = "quiz"
    /\ IF ~HasCurrent(quiz) \/ quiz.timerState.remaining = None
       THEN Untouched("tickTimer", delta)
       ELSE LET left == Max(0, quiz.timerState.remaining - delta) IN
            Touched([quiz EXCEPT !.timerState.remaining = left,
                                 !.timers[Current(quiz).id] = left],
                    "tickTimer", delta, TRUE)
    /\ UNCHANGED <<finished, route>>
    /\ UNCHANGED <<coinsVars, tourVars, dailyVars, unlockVars, selector, libraryVars, mp>>

UseAskHint ==
    /\ route = "quiz"
    /\ IF ~HasCurrent(quiz) \/ quiz.lifelines.askHintUsed
       THEN Untouched("useAskHint", 0)
       ELSE Touched([quiz EXCEPT !.hintShown[Current(quiz).id] = TRUE,
                                 !.lifelines.askHintUsed = TRUE],
                    "useAskHint", 0, TRUE)
    /\ UNCHANGED <<finished, route>>
    /\ UNCHANGED <<coinsVars, tourVars, dailyVars, unlockVars, selector, libraryVars, mp>>

\* the quiz view leaves for the results once the last question is submitted or skipped;
\* ResultView.onMounted records the score and calls clearSession()
ShowResults ==
    /\ route = "quiz"
    /\ quiz.hasSubmitted /\ IsLast(quiz)
    /\ route' = "results"
    /\ lsSession' = SessionAbsent
    /\ finished' = TRUE
    /\ lastCall' = Call("clearSession", EmptyId, 0, TRUE)
    /\ UNCHANGED quiz
    /\ UNCHANGED <<coinsVars, tourVars, dailyVars, unlockVars, selector, libraryVars, mp>>

\* ResultView.restart(): resetAll() and the start view
RestartQuiz ==
    /\ route = "results"
    /\ quiz' = [QuizInitial EXCEPT !.selectedCategory = quiz.selectedCategory]
    /\ lsSession' = SessionAbsent
    /\ finished' = FALSE
    /\ route' = "start"
    /\ lastCall' = Call("restart", EmptyId, 0, TRUE)
    /\ UNCHANGED <<coinsVars, tourVars, dailyVars, unlockVars, selector, libraryVars, mp>>

(***************************************************************************)
(* loadQuestions() against a configured backend: fetch with an abort timer. *)
(***************************************************************************)
\* what `await res.json()` delivers: a list of questions, some failing the schema test,
\* something that is no array, or no JSON at all
Bodies ==
    LET malformed == [Question(3, 0, 0) EXCEPT !.wellFormed = FALSE]
    IN {[parses |-> TRUE, isArray |-> TRUE, items |-> qs] :
           qs \in {BackendPool, <<>>, <<malformed>>, <<malformed, BackendPool[2]>>}}
       \cup {[parses |-> TRUE, isArray |-> FALSE, items |-> <<>>],
             [parses |-> FALSE, isArray |-> FALSE, items |-> <<>>]}

\* StartView.start() up to the first await of loadQuestions(): resetSession() over a saved
\* session, resetRuntime(), loading = true, fetch(url, { signal }) with the 6 s abort timer
LoadBegin ==
    /\ route = "start"
    /\ quiz.fetch = "none"
    /\ LET q0 == IF SafeReadOk(lsSession)
                 THEN [QuizInitial EXCEPT !.selectedCategory = quiz.selectedCategory]
                 ELSE quiz
       IN quiz' = [ResetRuntime(q0) EXCEPT !.loading = TRUE, !.fetch = "pending"]
    /\ lsSession' = IF SafeReadOk(lsSession) THEN SessionAbsent ELSE lsSession
    /\ finished' = FALSE
    /\ lastCall' = Call("loadQuestions", EmptyId, 0, TRUE)
    /\ UNCHANGED route
    /\ UNCHANGED <<coinsVars, tourVars, dailyVars, unlockVars, selector, libraryVars, mp>>

\* loadQuestions() from questions.value = qs to its finally block, then StartView.start()
\* pushes the quiz route
LoadCompleted(qs, op) ==
    LET q1 == [quiz EXCEPT !.questions = qs, !.started = TRUE,
                           !.loading = FALSE, !.fetch = "none"]
    IN /\ quiz' = PersistSession(q1).state
       /\ lsSession' = PersistSession(q1).stored
       /\ route' = "quiz"
       /\ lastCall' = Call(op, EmptyId, 0, TRUE)
       /\ UNCHANGED finished
       /\ UNCHANGED <<coinsVars, tourVars, dailyVars, unlockVars, selector, libraryVars, mp>>

\* fetch rejects, or answers with a status that is not ok: the catch block
FetchFails ==
    /\ quiz.fetch = "pending"
    /\ LoadCompleted(GkPool, "fetchFailed")

\* the abort timer fires while fetch is pending: controller.abort(), the catch block
FetchTimeout ==
    /\ quiz.fetch = "pending"
    /\ LoadCompleted(GkPool, "fetchAborted")

\* fetch resolves with an ok response: clearTimeout(timeout), then `await res.json()`
FetchResponds ==
    /\ quiz.fetch = "pending"
    /\ quiz' = [quiz EXCEPT !.fetch = "body"]
    /\ lastCall' = Call("fetchResponded", EmptyId, 0, TRUE)
    /\ UNCHANGED <<lsSession, finished, route>>
    /\ UNCHANGED <<coinsVars, tourVars, dailyVars, unlockVars, selector, libraryVars, mp>>

\* res.json() settles. questions.value after the body was read: the questions passing the
\* filter, or the fallback pool of the category when none is left, the data is no array, or
\* parsing threw
BodyArrives(body) ==
    /\ quiz.fetch = "body"
    /\ LET kept == SelectSeq(body.items, LAMBDA x : x.wellFormed)
       IN LoadCompleted(IF body.parses /\ body.isArray /\ Len(kept) > 0 THEN kept ELSE GkPool,
                        "bodyRead")

(***************************************************************************)
(* Daily session: useDailyQuizStore.                                       *)
(***************************************************************************)
DAILY_SESSION_VERSION == 2
\* lastCompletedDate: null
NoDate == 0
\* the days a run lasts, and the daily entries the scoreboard is followed for
MaxDay == 3
MaxScores == 2

\* the questions prepareToday(category, count) may be asked for
DailyCounts == {2}

\* pickDeterministic(source, count, rng) for today's seed: count distinct questions of the pool
DailySet(count) == SubSeq(<<GkPool[3], GkPool[1], GkPool[2]>>, 1, Min(count, Len(GkPool)))

DailyInitial ==
    [questions |-> <<>>, currentIndex |-> 0, score |-> 0, selectedIndex |-> None,
     hasSubmitted |-> FALSE, selectedAnswers |-> QuizInitial.selectedAnswers,
     dailyDate |-> todayKey, streakCount |-> 0,
     lifelines |-> QuizInitial.lifelines, fiftyFiftyHidden |-> QuizInitial.fiftyFiftyHidden,
     hintShown |-> QuizInitial.hintShown]

DailyAbsent ==
    [present |-> FALSE, hasVersion |-> FALSE, version |-> 0, modeIsDaily |-> FALSE,
     dailyDate |-> NoDate, questionsIsArray |-> FALSE, questions |-> <<>>,
     currentIndexIsNumber |-> FALSE, currentIndex |-> 0, score |-> 0,
     selectedAnswers |-> QuizInitial.selectedAnswers,
     hasLifelines |-> FALSE, lifelines |-> QuizInitial.lifelines,
     fiftyFiftyHidden |-> QuizInitial.fiftyFiftyHidden, hintShown |-> QuizInitial.hintShown]

\* readPersist() over an empty key
DailyMetaAbsent ==
    [lastPlayedDate |-> NoDate, lastCompletedDate |-> NoDate, streakCount |-> 0,
     rewardsHistory |-> {}]

\* buildSession() of the daily store, written by persistSession()
DailyPayload(d) ==
    IF Len(d.questions) = 0 THEN DailyAbsent
    ELSE [present |-> TRUE, hasVersion |-> TRUE, version |-> DAILY_SESSION_VERSION,
          modeIsDaily |-> TRUE, dailyDate |-> d.dailyDate, questionsIsArray |-> TRUE,
          questions |-> d.questions, currentIndexIsNumber |-> TRUE,
          currentIndex |-> d.currentIndex, score |-> d.score,
          selectedAnswers |-> d.selectedAnswers,
          hasLifelines |-> TRUE, lifelines |-> d.lifelines,
          fiftyFiftyHidden |-> d.fiftyFiftyHidden, hintShown |-> d.hintShown]

\* readSession() !== null
ReadSessionOk(ls) ==
    /\ ls.present
    /\ ls.hasVersion /\ ls.version = DAILY_SESSION_VERSION
    /\ ls.modeIsDaily
    /\ ls.questionsIsArray
    /\ ls.currentIndexIsNumber

\* a resume that takes a snapshot of any day
DailyResumesAnyDay(ls) == ReadSessionOk(ls)
\* resumeIfAvailable() returns true
DailyResumes(ls) == ReadSessionOk(ls) /\ ls.dailyDate = todayKey

DailyHydrated(d, ls) ==
    [d EXCEPT !.questions = ls.questions, !.currentIndex = ls.currentIndex,
              !.score = ls.score, !.selectedAnswers = ls.selectedAnswers,
              !.dailyDate = ls.dailyDate,
              !.lifelines = IF ls.hasLifelines THEN ls.lifelines ELSE @,
              !.fiftyFiftyHidden = ls.fiftyFiftyHidden, !.hintShown = ls.hintShown,
              !.selectedIndex = None, !.hasSubmitted = FALSE]

\* prepareToday(): today's set and a reset runtime
DailyPrepared(count) == [DailyInitial EXCEPT !.questions = DailySet(count)]

DailyPersisted(d, op, arg, ok) ==
    /\ daily' = d
    /\ lsDaily' = DailyPayload(d)
    /\ lastCall' = Call(op, EmptyId, arg, ok)

DailyUntouched(op, arg) ==
    /\ UNCHANGED <<daily, lsDaily>>
    /\ lastCall' = Call(op, EmptyId, arg, FALSE)

DailyHasSaved ==
    /\ route = "daily"
    /\ lastCall' = Call("daily.hasSavedDaily", EmptyId, 0, DailyResumes(lsDaily))
    /\ UNCHANGED <<dailyVars, route>>
    /\ UNCHANGED <<coinsVars, tourVars, quizVars, unlockVars, selector, libraryVars, mp>>

DailyResumeIfAvailable ==
    /\ route = "daily"
    /\ daily' = IF DailyResumes(lsDaily) THEN DailyHydrated(daily, lsDaily) ELSE daily
    /\ lsDaily' = IF ReadSessionOk(lsDaily) /\ ~DailyResumes(lsDaily) THEN DailyAbsent
                  ELSE lsDaily
    /\ lastCall' = Call("daily.resumeIfAvailable", EmptyId, 0, DailyResumes(lsDaily))
    /\ UNCHANGED <<lsDailyMeta, scores, todayKey, dailyTimers, route>>
    /\ UNCHANGED <<coinsVars, tourVars, quizVars, unlockVars, selector, libraryVars, mp>>

\* DailyQuizView.ensureDaily(): resume if possible, else prepareToday(), which notes the
\* day in the meta and persists the new attempt
OpenDailyView(count) ==
    /\ route = "start"
    /\ route' = "daily"
    /\ IF DailyResumes(lsDaily)
       THEN /\ daily' = DailyHydrated(daily, lsDaily)
            /\ UNCHANGED <<lsDaily, lsDailyMeta>>
            /\ lastCall' = Call("daily.resumeIfAvailable", EmptyId, 0, TRUE)
       ELSE /\ DailyPersisted([DailyPrepared(count) EXCEPT !.dailyDate = todayKey,
                                                          !.streakCount = daily.streakCount],
                              "daily.prepareToday", count, TRUE)
            /\ lsDailyMeta' = [lsDailyMeta EXCEPT !.lastPlayedDate = todayKey]
    /\ UNCHANGED <<scores, todayKey, dailyTimers>>
    /\ UNCHANGED <<coinsVars, tourVars, quizVars, unlockVars, selector, libraryVars, mp>>

\* exitDaily(); onBeforeUnmount clears both timers
LeaveDailyView ==
    /\ route = "daily"
    /\ route' = "start"
    /\ dailyTimers' = [autoNext |-> FALSE, confetti |-> FALSE]
    /\ lastCall' = Call("leaveDaily", EmptyId, 0, TRUE)
    /\ UNCHANGED <<daily, lsDaily, lsDailyMeta, scores, todayKey>>
    /\ UNCHANGED <<coinsVars, tourVars, quizVars, unlockVars, selector, libraryVars, mp>>

DailyHasCurrent(d) == d.currentIndex \in 0..(Len(d.questions) - 1)
DailyCurrent(d) == d.questions[d.currentIndex + 1]

DailySelectOption(index) ==
    /\ route = "daily"
    /\ DailyHasCurrent(daily) /\ index < DailyCurrent(daily).nOptions
    /\ IF daily.hasSubmitted
       THEN DailyUntouched("daily.selectOption", index)
       ELSE DailyPersisted([daily EXCEPT !.selectedIndex = index], "daily.selectOption", index, TRUE)
    /\ UNCHANGED <<lsDailyMeta, scores, todayKey, dailyTimers, route>>
    /\ UNCHANGED <<coinsVars, tourVars, quizVars, unlockVars, selector, libraryVars, mp>>

\* submitAnswer(), and the scheduleAutoNext() the view runs once hasSubmitted is true
DailySubmitAnswer ==
    /\ route = "daily"
    /\ daily.score < MaxScore
    /\ IF daily.selectedIndex = None \/ ~DailyHasCurrent(daily)
       THEN /\ DailyUntouched("daily.submitAnswer", daily.selectedIndex)
            /\ dailyTimers' = [dailyTimers EXCEPT !.autoNext = @ \/ daily.hasSubmitted]
       ELSE LET correct == daily.selectedIndex = DailyCurrent(daily).answerIndex IN
            /\ DailyPersisted([daily EXCEPT !.hasSubmitted = TRUE,
                                         !.score = IF correct THEN @ + 1 ELSE @,
                                         !.selectedAnswers[DailyCurrent(daily).id] = daily.selectedIndex],
                              "daily.submitAnswer", daily.selectedIndex, correct)
            /\ dailyTimers' = [dailyTimers EXCEPT !.autoNext = TRUE]
    /\ UNCHANGED <<lsDailyMeta, scores, todayKey, route>>
    /\ UNCHANGED <<coinsVars, tourVars, quizVars, unlockVars, selector, libraryVars, mp>>

\* the session nextQuestion() moves to
DailyAdvanced(d) ==
    [d EXCEPT !.currentIndex = @ + 1, !.selectedIndex = None, !.hasSubmitted = FALSE]

\* nextQuestion(); the watcher of hasSubmitted cancels the auto-next timer once it is false
DailyNextQuestion ==
    /\ route = "daily"
    /\ IF CanAdvance(daily)
       THEN /\ DailyPersisted(DailyAdvanced(daily), "daily.nextQuestion", 0, TRUE)
            /\ dailyTimers' = [dailyTimers EXCEPT !.autoNext = FALSE]
       ELSE /\ DailyUntouched("daily.nextQuestion", 0)
            /\ UNCHANGED dailyTimers
    /\ UNCHANGED <<lsDailyMeta, scores, todayKey, route>>
    /\ UNCHANGED <<coinsVars, tourVars, quizVars, unlockVars, selector, libraryVars, mp>>

\* a streak that grows on every completion of a new day, gap or not
CalcStreakIgnoringGaps(dateKey, lastCompleted, streak) ==
    IF lastCompleted = NoDate THEN 1
    ELSE IF lastCompleted = dateKey THEN (IF streak # 0 THEN streak ELSE 1)
    ELSE streak + 1
\* calcStreakOnCompletion(dateKey, lastCompleted), streak being readPersist().streakCount
CalcStreakOnCompletion(dateKey, lastCompleted, streak) ==
    IF lastCompleted = NoDate THEN 1
    ELSE IF lastCompleted = dateKey THEN (IF streak # 0 THEN streak ELSE 1)
    ELSE IF lastCompleted = dateKey - 1 THEN streak + 1
    ELSE 1

\* completeAndRecordScore(addScore) on the session d: the streak and its badge go to the
\* meta, an entry goes to the top of the scoreboard, the snapshot of the day is cleared
CompleteAndRecordScore(d) ==
    LET newStreak == CalcStreakOnCompletion(d.dailyDate, lsDailyMeta.lastCompletedDate,
                                            lsDailyMeta.streakCount)
        \* rewardsForStreak(): the streaks that unlock a badge
        unlocked == {newStreak} \cap {1, 3, 7, 14, 30}
    IN /\ daily' = [d EXCEPT !.streakCount = newStreak]
       /\ lsDailyMeta' = [lsDailyMeta EXCEPT !.streakCount = newStreak,
                                             !.lastCompletedDate = d.dailyDate,
                                             !.rewardsHistory = @ \cup unlocked]
       /\ scores' = <<[dateKey |-> d.dailyDate, streakAtCompletion |-> newStreak,
                       rewards |-> unlocked, score |-> d.score]>> \o scores
       /\ lsDaily' = DailyAbsent
       /\ lastCall' = Call("daily.completeAndRecordScore", EmptyId, newStreak, TRUE)

\* handleSubmitOrNext() on the last question, its answer submitted: nextQuestion() returns
\* false, completeAndRecordScore(), and the confetti timer that will show the results
DailyFinish ==
    /\ route = "daily"
    /\ daily.hasSubmitted /\ ~CanAdvance(daily)
    /\ Len(scores) < MaxScores
    /\ CompleteAndRecordScore(daily)
    /\ dailyTimers' = [dailyTimers EXCEPT !.confetti = TRUE]
    /\ UNCHANGED <<todayKey, route>>
    /\ UNCHANGED <<coinsVars, tourVars, quizVars, unlockVars, selector, libraryVars, mp>>

\* the auto-next timer fires: nextQuestion(), and on the last question
\* completeAndRecordScore() and the results view, whose onMounted clears the quiz session
AutoNextFires ==
    /\ route = "daily"
    /\ dailyTimers.autoNext
    /\ (daily.hasSubmitted /\ ~CanAdvance(daily)) => Len(scores) < MaxScores
    /\ IF ~daily.hasSubmitted
       THEN /\ DailyUntouched("autoNext", 0)
            /\ dailyTimers' = [dailyTimers EXCEPT !.autoNext = FALSE]
            /\ UNCHANGED <<lsDailyMeta, scores, route, lsSession>>
       ELSE IF CanAdvance(daily)
       THEN /\ DailyPersisted(DailyAdvanced(daily), "daily.nextQuestion", 0, TRUE)
            /\ dailyTimers' = [dailyTimers EXCEPT !.autoNext = FALSE]
            /\ UNCHANGED <<lsDailyMeta, scores, route, lsSession>>
       ELSE /\ CompleteAndRecordScore(daily)
            /\ dailyTimers' = [autoNext |-> FALSE, confetti |-> FALSE]
            /\ route' = "results"
            /\ lsSession' = SessionAbsent
    /\ UNCHANGED <<todayKey, quiz, finished>>
    /\ UNCHANGED <<coinsVars, tourVars, unlockVars, selector, libraryVars, mp>>

\* the confetti timer fires: the results view
ConfettiDone ==
    /\ route = "daily"
    /\ dailyTimers.confetti
    /\ route' = "results"
    /\ dailyTimers' = [autoNext |-> FALSE, confetti |-> FALSE]
    /\ lsSession' = SessionAbsent
    /\ lastCall' = Call("showDailyResults", EmptyId, 0, TRUE)
    /\ UNCHANGED <<daily, lsDaily, lsDailyMeta, scores, todayKey, quiz, finished>>
    /\ UNCHANGED <<coinsVars, tourVars, unlockVars, selector, libraryVars, mp>>

\* useFiftyFifty() of the daily store: two of the wrong options, in the order the seeded
\* comparator leaves them
DailyUseFiftyFifty ==
    /\ route = "daily"
    /\ IF ~DailyHasCurrent(daily) \/ daily.lifelines.fiftyFiftyUsed
       THEN DailyUntouched("daily.useFiftyFifty", 0)
       ELSE LET cur == DailyCurrent(daily)
                wrongs == {i \in 0..(cur.nOptions - 1) : i # cur.answerIndex}
            IN \E hidden \in {h \in SUBSET wrongs :
                                 Cardinality(h) = Min(2, Cardinality(wrongs))} :
                 LET d1 == [daily EXCEPT !.fiftyFiftyHidden[cur.id] = hidden,
                                         !.lifelines.fiftyFiftyUsed = TRUE]
                 IN /\ daily' = d1
                    /\ lsDaily' = DailyPayload(d1)
                    /\ lastCall' = [Call("daily.useFiftyFifty", EmptyId, 0, TRUE) EXCEPT
                                       !.hidden = hidden]
    /\ UNCHANGED <<lsDailyMeta, scores, todayKey, dailyTimers, route>>
    /\ UNCHANGED <<coinsVars, tourVars, quizVars, unlockVars, selector, libraryVars, mp>>

\* the skip button of the daily view: useSkipQuestion(), and when it is ok
\* hasSubmitted = true and handleSubmitOrNext()
DailyUseSkipQuestion ==
    /\ route = "daily"
    /\ LET d1 == [daily EXCEPT !.selectedAnswers[DailyCurrent(daily).id] = Skipped,
                               !.lifelines.skipUsed = TRUE,
                               !.hasSubmitted = TRUE]
       IN IF ~DailyHasCurrent(daily) \/ daily.lifelines.skipUsed
          THEN /\ DailyUntouched("daily.useSkipQuestion", 0)
               /\ UNCHANGED <<lsDailyMeta, scores, dailyTimers>>
          ELSE IF CanAdvance(d1)
          THEN /\ DailyPersisted(DailyAdvanced(d1), "daily.useSkipQuestion", 0, TRUE)
               /\ dailyTimers' = [dailyTimers EXCEPT !.autoNext = FALSE]
               /\ UNCHANGED <<lsDailyMeta, scores>>
          ELSE /\ Len(scores) < MaxScores
               /\ CompleteAndRecordScore(d1)
               /\ dailyTimers' = [autoNext |-> TRUE, confetti |-> TRUE]
    /\ UNCHANGED <<todayKey, route>>
    /\ UNCHANGED <<coinsVars, tourVars, quizVars, unlockVars, selector, libraryVars, mp>>

DailyUseAskHint ==
    /\ route = "daily"
    /\ IF ~DailyHasCurrent(daily) \/ daily.lifelines.askHintUsed
       THEN DailyUntouched("daily.useAskHint", 0)
       ELSE DailyPersisted([daily EXCEPT !.hintShown[DailyCurrent(daily).id] = TRUE,
                                         !.lifelines.askHintUsed = TRUE],
                           "daily.useAskHint", 0, TRUE)
    /\ UNCHANGED <<lsDailyMeta, scores, todayKey, dailyTimers, route>>
    /\ UNCHANGED <<coinsVars, tourVars, quizVars, unlockVars, selector, libraryVars, mp>>

\* midnight passes: getTodayKey() names the next day
NextDay ==
    /\ todayKey < MaxDay
    /\ todayKey' = todayKey + 1
    /\ lastCall' = Call("midnight", EmptyId, 0, TRUE)
    /\ UNCHANGED <<daily, lsDaily, lsDailyMeta, scores, dailyTimers, route>>
    /\ UNCHANGED <<coinsVars, tourVars, quizVars, unlockVars, selector, libraryVars, mp>>

(***************************************************************************)
(* Category unlocks: useCategoryUnlockStore.                               *)
(***************************************************************************)
UNLOCKS_VERSION == 1
DEFAULT_THRESH == 80

\* defaultUnlocked(): only gk
UnlocksDefault == [unlocked |-> {"gk"}, scorePercent |-> DEFAULT_THRESH, dailyCountsForUnlocks |-> FALSE]

UnlocksAbsent ==
    [present |-> FALSE, hasVersion |-> FALSE, version |-> 0, unlocked |-> {},
     hasScorePercent |-> FALSE, scorePercent |-> 0, dailyCountsForUnlocks |-> FALSE]

\* readState(): the stored object with defaults for what it lacks, or the default state
ReadState(ls) ==
    IF ~ls.present THEN UnlocksDefault
    ELSE [unlocked |-> ls.unlocked,
          scorePercent |-> IF ls.hasScorePercent THEN Max(0, Min(100, ls.scorePercent))
                           ELSE DEFAULT_THRESH,
          dailyCountsForUnlocks |-> ls.dailyCountsForUnlocks]

LoadUnlocks ==
    /\ unlocks' = ReadState(lsUnlocks)
    /\ lastCall' = Call("loadUnlocks", EmptyId, 0, lsUnlocks.present)
    /\ UNCHANGED lsUnlocks
    /\ UNCHANGED <<coinsVars, tourVars, quizVars, dailyVars, selector, libraryVars, mp, route>>

\* defaultPrereqs: the prerequisite graph. state.prerequisites is this graph in every state
\* the store itself writes
DefaultPrereqs ==
    [gk |-> {}, sports |-> {"gk"}, movies |-> {"gk"}, science |-> {"gk"},
     history |-> {"science"}, geography |-> {"history"}]

\* a prerequisite test that never passes
AllPrereqsNeverMet(unlocked, prereqs) == FALSE
\* prereqs.every((p) => unlocked[p])
AllPrereqsMet(unlocked, prereqs) == \A p \in prereqs : p \in unlocked

\* an evaluation that works the unlocked set out again from the score of this call alone
EvaluatedFromScratch(u, ls, category, accuracyPercent, mode) ==
    [state |-> [u EXCEPT !.unlocked = IF accuracyPercent >= u.scorePercent
                                      THEN {"gk", category} ELSE {"gk"}],
     stored |-> ls, newly |-> <<>>]
\* evaluateUnlocksFromScore({category, accuracyPercent, mode}): the state, the stored value
\* and the returned list `newly` after the call. The pass goes over the keys in their order
\* and updates unlocked in place, so a category unlocked early in the pass counts as a met
\* prerequisite later in the same pass.
EvaluatedUnlocks(u, ls, category, accuracyPercent, mode) ==
    LET keys == <<"gk", "sports", "movies", "science", "history", "geography">>
        \* if (accuracyPercent >= threshold) state.value.unlocked[category] = true
        played == IF accuracyPercent >= u.scorePercent THEN u.unlocked \cup {category}
                  ELSE u.unlocked
        RECURSIVE Pass(_, _, _)
        Pass(i, unlocked, newly) ==
            IF i > Len(keys) THEN [unlocked |-> unlocked, newly |-> newly]
            ELSE IF keys[i] \in unlocked THEN Pass(i + 1, unlocked, newly)
            ELSE IF AllPrereqsMet(unlocked, DefaultPrereqs[keys[i]])
                 THEN Pass(i + 1, unlocked \cup {keys[i]}, Append(newly, keys[i]))
                 ELSE Pass(i + 1, unlocked, newly)
        after == CHOOSE r \in {Pass(1, played, <<>>)} : TRUE
        state == [u EXCEPT !.unlocked = after.unlocked]
        \* writeState(state.value)
        written == [present |-> TRUE, hasVersion |-> TRUE, version |-> UNLOCKS_VERSION,
                    unlocked |-> state.unlocked,
                    hasScorePercent |-> TRUE, scorePercent |-> state.scorePercent,
                    dailyCountsForUnlocks |-> state.dailyCountsForUnlocks]
    IN IF mode = "daily" /\ ~u.dailyCountsForUnlocks
       THEN [state |-> u, stored |-> ls, newly |-> <<>>]
       ELSE [state |-> state,
             stored |-> IF Len(after.newly) > 0 \/ accuracyPercent >= u.scorePercent
                        THEN written ELSE ls,
             newly |-> after.newly]

\* a call of evaluateUnlocksFromScore; the returned list is noted in lastCall.hidden, the
\* played category in lastCall.id, the accuracy in lastCall.amount
EvaluateUnlocksFromScore(category, accuracyPercent, mode) ==
    LET e == EvaluatedUnlocks(unlocks, lsUnlocks, category, accuracyPercent, mode) IN
    /\ unlocks' = e.state
    /\ lsUnlocks' = e.stored
    /\ lastCall' = [Call("evaluateUnlocksFromScore", PlainId(category), accuracyPercent,
                         ~(mode = "daily" /\ ~unlocks.dailyCountsForUnlocks))
                       EXCEPT !.hidden = {e.newly[i] : i \in 1..Len(e.newly)}]
    /\ UNCHANGED <<coinsVars, tourVars, quizVars, dailyVars, selector, libraryVars, mp, route>>

\* CustomQuizPlayView.onMounted: resetAll(), the placeholder category and the questions of
\* the library quiz, set directly; the view then drives the store's selectOption(),
\* submitAnswer() and nextQuestion() as the quiz view does
StartCustomQuiz ==
    /\ route = "start"
    /\ quiz' = [QuizInitial EXCEPT !.selectedCategory = "gk", !.questions = GkPool]
    /\ lsSession' = SessionAbsent
    /\ finished' = FALSE
    /\ route' = "quiz"
    /\ lastCall' = Call("customPlay", EmptyId, 0, TRUE)
    /\ UNCHANGED <<coinsVars, tourVars, dailyVars, unlockVars, selector, libraryVars, mp>>

\* submitOrNext() pushes the results route when nextQuestion() returns false on a submitted
\* question. The results view with the unlock celebration, onMounted: loadUnlocks(), the
\* score, evaluateUnlocksFromScore() with the store's category and
\* pct = total ? Math.round(score / total * 100) : 0, then clearSession(). The mode is
\* 'daily' only when the latest scoreboard record is a daily one; the route's query is not
\* read.
ResultsMounted ==
    /\ route = "quiz"
    /\ quiz.hasSubmitted /\ IsLast(quiz)
    /\ scores = <<>>
    /\ LET total == Len(quiz.questions)
           pct == IF total > 0 THEN (200 * quiz.score + total) \div (2 * total) ELSE 0
           e == EvaluatedUnlocks(ReadState(lsUnlocks), lsUnlocks, quiz.selectedCategory,
                                 pct, "normal")
       IN /\ unlocks' = e.state
          /\ lsUnlocks' = e.stored
          /\ lastCall' = [Call("resultsMounted", PlainId(quiz.selectedCategory), pct, TRUE)
                             EXCEPT !.hidden = {e.newly[i] : i \in 1..Len(e.newly)}]
    /\ route' = "results"
    /\ lsSession' = SessionAbsent
    /\ finished' = TRUE
    /\ UNCHANGED quiz
    /\ UNCHANGED <<coinsVars, tourVars, dailyVars, selector, libraryVars, mp>>

(***************************************************************************)
(* Multiplayer rooms: useMultiplayerStore.                                 *)
(***************************************************************************)
FULL_POINTS == 10
REDUCED_POINTS == 5
\* the largest timestamp a submission carries
MaxTs == 3

\* appendSubmissionAndScore(submission) on the store state m: a second submission of a
\* player for a question is dropped; a correct one earns FULL_POINTS if it is the first of
\* the correct submissions of the question held now, sorted by ts (the sort is stable:
\* among equal timestamps the one appended first), else REDUCED_POINTS
AppendSubmissionAndScore(m, submission) ==
    LET exists == \E i \in 1..Len(m.submissions) :
                      /\ m.submissions[i].playerId = submission.playerId
                      /\ m.submissions[i].questionIndex = submission.questionIndex
        subs == Append(m.submissions, submission)
        correctOnes == SelectSeq(subs, LAMBDA s : s.questionIndex = submission.questionIndex
                                                    /\ s.correct)
        first == CHOOSE i \in 1..Len(correctOnes) :
                     \A j \in 1..Len(correctOnes) :
                         \/ correctOnes[i].ts < correctOnes[j].ts
                         \/ (correctOnes[i].ts = correctOnes[j].ts /\ i <= j)
        points == IF correctOnes[first].playerId = submission.playerId
                  THEN FULL_POINTS ELSE REDUCED_POINTS
    IN IF exists THEN m
       ELSE IF submission.correct /\ submission.playerId \in DOMAIN m.players
            THEN [m EXCEPT !.submissions = subs,
                           !.players[submission.playerId] = @ + points]
            ELSE [m EXCEPT !.submissions = subs]

\* handleWsMessage, ROOM_JOINED of a room whose game is running: the player list the server
\* sent (this client "p1" and two others, nobody has scored), and the questions
WsRoomJoined ==
    /\ mp.playerId = ""
    /\ mp' = [mp EXCEPT !.playerId = "p1",
                        !.players = [p \in {"p1", "p2", "p3"} |-> 0],
                        !.questions = <<[answerIndex |-> 1]>>]
    /\ lastCall' = Call("ROOM_JOINED", EmptyId, 0, TRUE)
    /\ UNCHANGED <<coinsVars, tourVars, quizVars, dailyVars, unlockVars, selector, libraryVars, route>>

\* submitAnswer(answerIndex) at Date.now() = ts: the submission is sent and appended at once
MpSubmitAnswer(answerIndex, ts) ==
    /\ mp.playerId # ""
    /\ IF mp.questions = <<>>
       THEN UNCHANGED mp
       ELSE mp' = AppendSubmissionAndScore(mp,
                     [playerId |-> mp.playerId, questionIndex |-> 0,
                      correct |-> answerIndex = mp.questions[1].answerIndex, ts |-> ts])
    /\ lastCall' = Call("mp.submitAnswer", EmptyId, answerIndex, mp.questions # <<>>)
    /\ UNCHANGED <<coinsVars, tourVars, quizVars, dailyVars, unlockVars, selector, libraryVars, route>>

\* handleWsMessage, SUBMISSION: the submission of a player, stamped by its sender's clock,
\* arrives whenever the network delivers it
WsSubmission(submission) ==
    /\ mp.playerId # ""
    /\ mp' = AppendSubmissionAndScore(mp, submission)
    /\ lastCall' = Call("SUBMISSION", EmptyId, submission.ts, TRUE)
    /\ UNCHANGED <<coinsVars, tourVars, quizVars, dailyVars, unlockVars, selector, libraryVars, route>>

(***************************************************************************)
(* Custom quizzes: useCustomQuizzesStore and the editor that saves to it.   *)
(* Of a quiz the id, the title and the questions are kept, of a question    *)
(* the id, the text, the options and correctIndex; identifiers are numbers, *)
(* NoId where there is none, and uuid() hands out the next unused number.   *)
(* Texts and options are strings, so String(o) leaves an option as it is.   *)
(***************************************************************************)
\* the most quizzes a run creates
MaxQuizzes == 2

\* sanitizeQuiz(q): the cleaned quiz, or null (ok is FALSE)
SanitizeQuiz(q) ==
    LET \* title.trim(), text.trim()
        Trim(t) == IF t = " " THEN "" ELSE t
        \* optionsIn.map((o) => String(o)).filter((o) => o.length > 0).slice(0, 6)
        Options(qq) ==
            LET filled == SelectSeq(qq.options, LAMBDA o : o # "")
            IN SubSeq(filled, 1, Min(6, Len(filled)))
        RECURSIVE Map(_)
        Map(qs) ==
            IF qs = <<>> THEN <<>>
            ELSE <<[id |-> Head(qs).id, text |-> Trim(Head(qs).text),
                    options |-> Options(Head(qs)),
                    correctIndex |-> Head(qs).correctIndex]>> \o Map(Tail(qs))
        kept == SelectSeq(Map(q.questions),
                          LAMBDA qq : /\ qq.text # "" /\ Len(qq.options) >= 2
                                      /\ qq.correctIndex >= 0
                                      /\ qq.correctIndex < Len(qq.options))
        cleanedQuestions == SubSeq(kept, 1, Min(200, Len(kept)))
    IN IF Trim(q.title) = "" \/ cleanedQuestions = <<>>
       THEN [ok |-> FALSE, quiz |-> q]
       ELSE [ok |-> TRUE,
             quiz |-> [id |-> q.id, title |-> Trim(q.title), questions |-> cleanedQuestions]]

\* CustomQuizEditor loadOrInit() without a quiz to edit: a new draft of one empty question
EditorInit ==
    /\ draft' = [id |-> NoId, title |-> "",
                 questions |-> <<[id |-> 1, text |-> "", options |-> <<"", "">>,
                                  correctIndex |-> 0]>>]
    /\ lastCall' = Call("editor.init", EmptyId, 0, TRUE)
    /\ UNCHANGED <<library, lsLibrary>>
    /\ UNCHANGED <<coinsVars, tourVars, quizVars, dailyVars, unlockVars, selector, mp, route>>

\* the author fills the form in: the title and the questions with their options and the
\* option chosen as correct
EditDraft(title, questions) ==
    /\ draft' = [draft EXCEPT !.title = title, !.questions = questions]
    /\ lastCall' = Call("editor.edit", EmptyId, 0, TRUE)
    /\ UNCHANGED <<library, lsLibrary>>
    /\ UNCHANGED <<coinsVars, tourVars, quizVars, dailyVars, unlockVars, selector, mp, route>>

\* CustomQuizEditor save(): nothing without a valid form; else store.update(draft.id, payload)
\* or store.create(payload), and draft.id = res.id when a quiz came back. update() loads the
\* library first if it is not loaded, create() throws on a payload sanitizeQuiz rejects and
\* the editor catches that; both end in save()
EditorSave ==
    LET Filled(q) == SelectSeq(q.options, LAMBDA o : o # "" /\ o # " ")
        valid == /\ draft.title \notin {"", " "}
                 /\ draft.questions # <<>>
                 /\ \A i \in 1..Len(draft.questions) :
                       /\ draft.questions[i].text \notin {"", " "}
                       /\ Len(Filled(draft.questions[i])) >= 2
                       /\ draft.questions[i].correctIndex >= 0
                       /\ draft.questions[i].correctIndex < Len(draft.questions[i].options)
        \* readStorage(): the stored quizzes sanitizeQuiz accepts
        RECURSIVE Read(_)
        Read(qs) ==
            IF qs = <<>> THEN <<>>
            ELSE (IF SanitizeQuiz(Head(qs)).ok THEN <<SanitizeQuiz(Head(qs)).quiz>> ELSE <<>>)
                 \o Read(Tail(qs))
        isUpdate == draft.id # NoId
        quizzes == IF isUpdate /\ ~library.loaded THEN Read(lsLibrary) ELSE library.quizzes
        found == {i \in 1..Len(quizzes) : quizzes[i].id = draft.id}
        res == SanitizeQuiz([draft EXCEPT !.id = IF isUpdate THEN draft.id
                                                  ELSE Len(library.quizzes) + 1])
        saved == valid /\ res.ok /\ (isUpdate => found # {})
        after == IF isUpdate
                 THEN [quizzes EXCEPT ![CHOOSE i \in found : \A j \in found : i <= j] = res.quiz]
                 ELSE <<res.quiz>> \o quizzes
    IN /\ (valid /\ ~isUpdate) => Len(library.quizzes) < MaxQuizzes
       /\ library' = IF ~valid THEN library
                     ELSE [quizzes |-> IF saved THEN after ELSE quizzes,
                           loaded |-> library.loaded \/ isUpdate]
       /\ lsLibrary' = IF saved THEN after ELSE lsLibrary
       /\ draft' = IF saved THEN [draft EXCEPT !.id = res.quiz.id] ELSE draft
       /\ lastCall' = Call("editor.save", EmptyId, 0, saved)
       /\ UNCHANGED <<coinsVars, tourVars, quizVars, dailyVars, unlockVars, selector, mp, route>>

(***************************************************************************)
(* The page.                                                               *)
(***************************************************************************)
\* a page reload re-creates every pinia store and drops pending callbacks; localStorage
\* survives; main.ts calls quiz.resumeIfAvailable() before it mounts the start view
PageReload ==
    /\ nextId + 2 <= MaxIds
    /\ coins' = CoinsInitial
    /\ tour' = TourFresh(nextId + 1, nextId + 2)
    /\ nextId' = nextId + 2
    /\ pendingMedals' = <<>>
    /\ quiz' = Resumed(QuizInitial, lsSession)
    /\ finished' = FALSE
    /\ daily' = DailyInitial
    /\ dailyTimers' = [autoNext |-> FALSE, confetti |-> FALSE]
    /\ unlocks' = ReadState(lsUnlocks)
    /\ route' = "start"
    /\ lastCall' = Call("reload", EmptyId, 0, SafeReadOk(lsSession))
    /\ UNCHANGED <<lsCoins, lsTournament, credited, lsSession, lsDaily, lsUnlocks>>
    /\ mp' = [playerId |-> "", players |-> [p \in {} |-> 0], submissions |-> <<>>, questions |-> <<>>]
    /\ draft' = [id |-> NoId, title |-> "", questions |-> <<>>]
    /\ library' = [quizzes |-> <<>>, loaded |-> FALSE]
    /\ UNCHANGED <<lsDailyMeta, scores, todayKey, selector, lsLibrary>>

InitStores ==
    /\ coins = CoinsInitial
    /\ lsCoins = CoinsAbsent
    /\ tour = TourFresh(1, 2)
    /\ nextId = 2
    /\ lsTournament = TournamentAbsent
    /\ pendingMedals = <<>>
    /\ credited = EmptyBag
    /\ quiz = QuizInitial
    /\ lsSession = SessionAbsent
    /\ finished = FALSE
    /\ todayKey = 1
    /\ daily = DailyInitial
    /\ lsDaily = DailyAbsent
    /\ lsDailyMeta = DailyMetaAbsent
    /\ scores = <<>>
    /\ dailyTimers = [autoNext |-> FALSE, confetti |-> FALSE]
    /\ unlocks = UnlocksDefault
    /\ lsUnlocks = UnlocksAbsent
    /\ selector = <<>>
    /\ mp = [playerId |-> "", players |-> [p \in {} |-> 0], submissions |-> <<>>, questions |-> <<>>]
    /\ draft = [id |-> NoId, title |-> "", questions |-> <<>>]
    /\ library = [quizzes |-> <<>>, loaded |-> FALSE]
    /\ lsLibrary = <<>>
    /\ route = "start"
    /\ lastCall = Call("init", EmptyId, 0, TRUE)

(***************************************************************************)
(* Deterministic selectors (stores/daily.ts, utils/pools.ts).  A 32-bit     *)
(* word is the pair <<hi, lo>> of its 16-bit halves; a string is the        *)
(* sequence of its character codes.  {e(x) : x \in {v}} computes v once.    *)
(***************************************************************************)
\* a ^ b on n-bit operands
RECURSIVE XorHalf(_, _, _)
XorHalf(a, b, n) ==
    IF n = 0 THEN 0
    ELSE (((a % 2) + (b % 2)) % 2) + 2 * XorHalf(a \div 2, b \div 2, n - 1)

\* a seeded hash that mixes the day in
SeededHashWithClock(str) ==
    LET Mixed(h, c) ==
            LET lo == XorHalf(h[2], c, 16)
            IN <<(h[1] * 403 + lo * 256 + (lo * 403) \div 65536) % 65536, (lo * 403) % 65536>>
        RECURSIVE Fold(_, _)
        Fold(h, rest) ==
            IF rest = <<>> THEN h
            ELSE CHOOSE r \in {Fold(m, Tail(rest)) : m \in {Mixed(h, rest[1])}} : TRUE
        hash == Fold(<<33052, 40389>>, str \o <<48 + todayKey>>)
    IN IF hash = <<0, 0>> THEN <<0, 1>> ELSE hash
\* seededHash(str): FNV-1a from 2166136261; Mixed(h, c) is Math.imul(h ^ c, 16777619);
\* the result is never 0
SeededHash(str) ==
    LET Mixed(h, c) ==
            LET lo == XorHalf(h[2], c, 16)
            IN <<(h[1] * 403 + lo * 256 + (lo * 403) \div 65536) % 65536, (lo * 403) % 65536>>
        RECURSIVE Fold(_, _)
        Fold(h, rest) ==
            IF rest = <<>> THEN h
            ELSE CHOOSE r \in {Fold(m, Tail(rest)) : m \in {Mixed(h, rest[1])}} : TRUE
        hash == Fold(<<33052, 40389>>, str)
    IN IF hash = <<0, 0>> THEN <<0, 1>> ELSE hash

\* shuffleInPlace(arr, rng), and the loop of pickDeterministic(): Fisher-Yates from the
\* last index down, j = floor(s / 0xffffffff * (i + 1)); After(i) is the array and the
\* generator once index i was handled.  s = 0xffffffff gives j = i + 1, which at the last
\* index swaps with the element past the end of the array (hole).
ShuffleInPlace(arr, seedWord, hole) ==
    LET \* one step of the generator makeRng() returns: xorshift32, s ^= s << 13,
        \* s ^= s >>> 17, s ^= s << 5
        RngNext(s) ==
            LET Xor(a, b) == <<XorHalf(a[1], b[1], 16), XorHalf(a[2], b[2], 16)>>
                Shl(w, k) == <<(w[1] * k + w[2] \div (65536 \div k)) % 65536,
                               (w[2] * k) % 65536>>
            IN CHOOSE r \in {Xor(s2, Shl(s2, 32)) :
                               s2 \in {Xor(s1, <<0, s1[1] \div 2>>) :
                                         s1 \in {Xor(s, Shl(s, 8192))}}} : TRUE
        Index(s, k) ==
            LET q0 == (s[1] * k + (s[2] * k) \div 65536) \div 65536
                low == <<(s[1] * k + (s[2] * k) \div 65536) % 65536, (s[2] * k) % 65536>>
            IN IF low[1] = 65535 /\ low[2] >= 65535 - q0 THEN q0 + 1 ELSE q0
        Swap(a, i, j) ==
            LET ext == IF j >= Len(a) THEN a \o <<hole>> ELSE a
            IN [ext EXCEPT ![i + 1] = ext[j + 1], ![j + 1] = ext[i + 1]]
        RECURSIVE After(_)
        After(i) ==
            IF i > Len(arr) - 1 THEN [arr |-> arr, rng |-> seedWord]
            ELSE CHOOSE next \in
                    {[arr |-> Swap(st[1].arr, i, Index(st[2], i + 1)), rng |-> st[2]] :
                       st \in {<<prev, RngNext(prev.rng)>> : prev \in {After(i + 1)}}} : TRUE
    IN After(1)

\* utils/pools.ts: the ids of the questions of each category, in the order of the file
Pools ==
    [gk |-> <<"gk-1", "gk-2", "gk-3">>, sports |-> <<"sp-1", "sp-2", "sp-3">>,
     movies |-> <<"mv-1", "mv-2", "mv-3">>, science |-> <<"sc-1", "sc-2", "sc-3">>,
     history |-> <<"hs-1", "hs-2", "hs-3">>, geography |-> <<"ge-1", "ge-2", "ge-3">>]

\* pools[category], or Object.values(pools).flat() without a category ("any")
PoolOf(category) ==
    IF category \in DOMAIN Pools THEN Pools[category]
    ELSE Pools.gk \o Pools.sports \o Pools.movies \o Pools.science \o Pools.history
         \o Pools.geography

\* idx.slice(0, Math.min(count, idx.length)).map(i => src[i]); Array.prototype.slice counts
\* a negative end from the end of the array
PickedBy(src, idx, count) ==
    LET at(i) == IF i \in 0..(Len(src) - 1) THEN src[i + 1] ELSE "undefined"
        end == Min(count, Len(idx))
        RECURSIVE Map(_)
        Map(s) == IF s = <<>> THEN <<>> ELSE <<at(Head(s))>> \o Map(Tail(s))
    IN Map(SubSeq(idx, 1, IF end < 0 THEN Max(Len(idx) + end, 0) ELSE end))

\* prepareToday(): pickDeterministic(source, count, makeRng(seededHash(dailySeed)))
PickDeterministic(seed, category, count) ==
    LET src == PoolOf(category)
        idx == ShuffleInPlace([i \in 1..Len(src) |-> i - 1], SeededHash(seed), -1).arr
    IN PickedBy(src, idx, count)

\* getDailyQuestionSet(seed, count, category)
GetDailyQuestionSet(seed, count, category) ==
    LET src == PoolOf(category)
        idx == ShuffleInPlace([i \in 1..Len(src) |-> i - 1], SeededHash(seed), -1).arr
    IN IF src = <<>> THEN <<>> ELSE PickedBy(src, idx, count)

\* getTournamentQuestionSet(seed, category, difficulty, countPerRound): the slice of the
\* pool the difficulty names, shuffled, cut, and shuffled again with the same generator
GetTournamentQuestionSet(seed, category, difficulty, countPerRound) ==
    LET fullPool == PoolOf(category)
        n == Len(fullPool)
        word == [easy |-> <<101, 97, 115, 121>>, medium |-> <<109, 101, 100, 105, 117, 109>>,
                 hard |-> <<104, 97, 114, 100>>][difficulty]
        start == IF difficulty = "easy" THEN 0
                 ELSE IF difficulty = "medium" THEN n \div 5 ELSE n \div 2
        end == IF difficulty = "easy" THEN Max(1, (2 * n) \div 5)
               ELSE IF difficulty = "medium" THEN Max(start + 1, (3 * n) \div 4) ELSE n
        sub == SubSeq(fullPool, start + 1, end)
        first == ShuffleInPlace([i \in 1..Len(sub) |-> i - 1],
                                SeededHash(seed \o <<58>> \o word), -1)
        picked == PickedBy(sub, first.arr, countPerRound)
    IN IF fullPool = <<>> \/ sub = <<>> THEN <<>>
       ELSE ShuffleInPlace(picked, first.rng, "undefined").arr

\* prepareToday() picks the questions of the day; the call and its result are noted
CallPickDeterministic(seed, category, count) ==
    /\ selector' = SubSeq(selector, 1, Min(1, Len(selector)))
                   \o <<[fn |-> "pickDeterministic", seed |-> seed, category |-> category,
                         difficulty |-> "", count |-> count,
                         out |-> PickDeterministic(seed, category, count)]>>
    /\ lastCall' = Call("pickDeterministic", EmptyId, count, TRUE)
    /\ UNCHANGED <<coinsVars, tourVars, quizVars, dailyVars, unlockVars, mp, libraryVars, route>>

CallGetDailyQuestionSet(seed, category, count) ==
    /\ selector' = SubSeq(selector, 1, Min(1, Len(selector)))
                   \o <<[fn |-> "getDailyQuestionSet", seed |-> seed, category |-> category,
                         difficulty |-> "", count |-> count,
                         out |-> GetDailyQuestionSet(seed, count, category)]>>
    /\ lastCall' = Call("getDailyQuestionSet", EmptyId, count, TRUE)
    /\ UNCHANGED <<coinsVars, tourVars, quizVars, dailyVars, unlockVars, mp, libraryVars, route>>

\* prepareRoundQuestions() asks for the questions of a round
CallGetTournamentQuestionSet(seed, category, difficulty, count) ==
    /\ selector' = SubSeq(selector, 1, Min(1, Len(selector)))
                   \o <<[fn |-> "getTournamentQuestionSet", seed |-> seed,
                         category |-> category, difficulty |-> difficulty, count |-> count,
                         out |-> GetTournamentQuestionSet(seed, category, difficulty, count)]>>
    /\ lastCall' = Call("getTournamentQuestionSet", EmptyId, count, TRUE)
    /\ UNCHANGED <<coinsVars, tourVars, quizVars, dailyVars, unlockVars, mp, libraryVars, route>>

(***************************************************************************)
(* Specifications.                                                         *)
(***************************************************************************)
SpecLedger ==
    /\ InitStores
    /\ [][
          \/ \E d \in {-2, 3, 10}, id \in CoinIdsUsed : CoinsAdd(d, id)
          \/ \E a \in {0, 3, 5}, id \in CoinIdsUsed : CoinsSpend(a, id)
          \/ CoinsReset
          \/ CoinsSave
          \/ CoinsLoad
          \/ PageReload
       ]_vars

SpecTournament ==
    /\ InitStores
    /\ [][
          \/ StartTournament("gk")
          \/ StartNextRound
          \/ \E m \in { [correct |-> 2, wrong |-> 1, skipped |-> 1, durations |-> <<5000, 7000>>] } : PlayRecordRoundResult(m)
          \/ PlayCompleteTournament
          \/ MedalsResolved
          \/ LoadIfAvailable
          \/ ResetTournament
          \/ PageReload
       ]_vars

\* the standard and the daily session machine without lifelines
SpecSession ==
    /\ InitStores
    /\ [][
          \/ StartQuiz
          \/ \E i \in SelectInputs : QuizSelectOption(i)
          \/ QuizSubmitAnswer
          \/ QuizNextQuestion
          \/ ExitQuiz
          \/ QuizResumeIfAvailable
          \/ OpenQuizView
          \/ \E n \in DailyCounts : OpenDailyView(n)
          \/ \E i \in SelectInputs : DailySelectOption(i)
          \/ DailySubmitAnswer
          \/ DailyNextQuestion
          \/ LeaveDailyView
          \/ PageReload
       ]_vars

\* the standard session with its lifelines, its timer and the results view
SpecQuiz ==
    /\ InitStores
    /\ [][
          \/ StartQuiz
          \/ \E i \in SelectInputs : QuizSelectOption(i)
          \/ QuizSubmitAnswer
          \/ QuizNextQuestion
          \/ UseFiftyFifty
          \/ UseSkipQuestion
          \/ UseExtraTime
          \/ \E d \in {20} : TickTimer(d)
          \/ UseAskHint
          \/ ShowResults
          \/ OpenQuizView
          \/ RestartQuiz
       ]_vars

\* a quiz loaded from the backend; the abort timer of the fetch is a timer of the page,
\* so it fires if it stays armed
SpecLoad ==
    /\ InitStores
    /\ [][\/ LoadBegin
          \/ FetchFails
          \/ FetchTimeout
          \/ FetchResponds
          \/ \E body \in Bodies : BodyArrives(body)
          \/ \E i \in SelectInputs : QuizSelectOption(i)
          \/ QuizSubmitAnswer
          \/ QuizNextQuestion
          \/ ExitQuiz]_vars
    /\ WF_vars(FetchTimeout)

\* a run that plays one mode: the backend quiz is started while the daily store is empty,
\* the daily quiz while the quiz store is
StartBackendQuiz == Len(daily.questions) = 0 /\ LoadBegin
StartDailyQuiz(count) ==
    Len(quiz.questions) = 0 /\ quiz.fetch = "none" /\ OpenDailyView(count)

\* the lifelines of the two session stores, the session left and resumed in between
SpecLifelines ==
    /\ InitStores
    /\ [][\/ StartBackendQuiz
          \/ FetchFails
          \/ FetchResponds
          \/ \E body \in Bodies : BodyArrives(body)
          \/ \E i \in SelectInputs : QuizSelectOption(i)
          \/ QuizSubmitAnswer
          \/ QuizNextQuestion
          \/ UseFiftyFifty
          \/ UseSkipQuestion
          \/ UseExtraTime
          \/ UseAskHint
          \/ ExitQuiz
          \/ QuizResumeIfAvailable
          \/ \E count \in DailyCounts : StartDailyQuiz(count)
          \/ \E i \in SelectInputs : DailySelectOption(i)
          \/ DailySubmitAnswer
          \/ DailyNextQuestion
          \/ DailyUseFiftyFifty
          \/ DailyUseSkipQuestion
          \/ DailyUseAskHint
          \/ LeaveDailyView]_vars

\* the daily quiz over several days, with its timers and its results
SpecDaily ==
    /\ InitStores
    /\ [][\/ \E count \in DailyCounts : OpenDailyView(count)
          \/ \E i \in SelectInputs : DailySelectOption(i)
          \/ DailySubmitAnswer
          \/ DailyNextQuestion
          \/ DailyFinish
          \/ AutoNextFires
          \/ ConfettiDone
          \/ DailyUseSkipQuestion
          \/ LeaveDailyView
          \/ RestartQuiz
          \/ NextDay]_vars

(***************************************************************************)
(* The readers of the five stores over stored values of any shape.         *)
(***************************************************************************)
\* the version fields a stored value may carry: none, an accepted one, an unsupported one
StoredVersions(accepted) ==
    {[has |-> FALSE, v |-> 0]} \cup {[has |-> TRUE, v |-> x] : x \in accepted \cup {BadVersion}}

\* the application opens over a stored value of one store; the other keys are empty
InitRead ==
    LET \* the snapshot written after the first question of a new attempt was answered, with
        \* its version, question list and currentIndex varied: the list whole, empty, or
        \* holding a question that fails the schema test of safeReadSession(); the index in
        \* range (0) or past the end of every list (5), a number or not
        RawSessions ==
            LET answeredFirst ==
                    [LoadedQuestions(QuizInitial) EXCEPT
                       !.selectedIndex = GkPool[1].answerIndex, !.hasSubmitted = TRUE, !.score = 1,
                       !.selectedAnswers[GkPool[1].id] = GkPool[1].answerIndex]
                malformed == [Question(2, 0, 0) EXCEPT !.wellFormed = FALSE]
            IN {[SessionPayload(answeredFirst) EXCEPT
                   !.hasVersion = v.has, !.version = v.v, !.questions = qs,
                   !.currentIndex = ci, !.currentIndexIsNumber = isNum] :
                  v \in StoredVersions({1, SESSION_VERSION}),
                  qs \in {GkPool, <<>>, <<GkPool[1], malformed, GkPool[3]>>},
                  ci \in {0, 5}, isNum \in BOOLEAN}
        RawDailies ==
            {[DailyPayload(DailyPrepared(2)) EXCEPT
                !.hasVersion = v.has, !.version = v.v, !.questions = qs,
                !.currentIndex = ci, !.dailyDate = day] :
               v \in StoredVersions({DAILY_SESSION_VERSION}),
               qs \in {DailySet(2), <<>>}, ci \in {0, 5}, day \in {1, 2}}
        \* a ledger as save() wrote it, or an object that holds a balance and nothing else
        RawCoins ==
            {[CoinsPayload(AddedCoins(CoinsInitial, 10, PlainId("X"))) EXCEPT
                !.hasVersion = v.has, !.version = v.v,
                !.lifetimePresent = whole, !.lifetimeEarned = IF whole THEN @ ELSE 0,
                !.historyIsArray = whole, !.history = IF whole THEN @ ELSE <<>>] :
               v \in StoredVersions({COINS_VERSION}), whole \in BOOLEAN}
        RawTournaments ==
            {[TourPersisted([TourFresh(1, 2) EXCEPT !.isActive = TRUE, !.hasPlayers = TRUE,
                                                    !.currentRound = 1]) EXCEPT
                !.hasVersion = v.has, !.version = v.v] : v \in StoredVersions({TOURNAMENT_VERSION})}
        RawUnlocks ==
            {[present |-> TRUE, hasVersion |-> v.has, version |-> v.v, unlocked |-> {"gk", "science"},
              hasScorePercent |-> TRUE, scorePercent |-> DEFAULT_THRESH,
              dailyCountsForUnlocks |-> FALSE] : v \in StoredVersions({UNLOCKS_VERSION})}
    IN
    \E store \in {"quiz", "daily", "coins", "tournament", "unlocks"} :
       /\ todayKey = 2
       /\ lsDailyMeta = DailyMetaAbsent
       /\ scores = <<>>
       /\ dailyTimers = [autoNext |-> FALSE, confetti |-> FALSE]
       /\ lsSession \in (IF store = "quiz" THEN RawSessions ELSE {SessionAbsent})
       /\ lsDaily \in (IF store = "daily" THEN RawDailies ELSE {DailyAbsent})
       /\ lsCoins \in (IF store = "coins" THEN RawCoins ELSE {CoinsAbsent})
       /\ lsTournament \in (IF store = "tournament" THEN RawTournaments ELSE {TournamentAbsent})
       /\ lsUnlocks \in (IF store = "unlocks" THEN RawUnlocks ELSE {UnlocksAbsent})
       /\ route = (IF store = "daily" THEN "daily" ELSE "start")
       /\ coins = CoinsInitial
       /\ tour = TourFresh(3, 4)
       /\ nextId = 4
       /\ pendingMedals = <<>>
       /\ credited = EmptyBag
       /\ quiz = QuizInitial
       /\ finished = FALSE
       /\ daily = DailyInitial
       /\ unlocks = ReadState(lsUnlocks)
       /\ selector = <<>>
       /\ mp = [playerId |-> "", players |-> [p \in {} |-> 0], submissions |-> <<>>, questions |-> <<>>]
       /\ draft = [id |-> NoId, title |-> "", questions |-> <<>>]
       /\ library = [quizzes |-> <<>>, loaded |-> FALSE]
       /\ lsLibrary = <<>>
       /\ lastCall = Call("init", EmptyId, 0, TRUE)

SpecRead ==
    /\ InitRead
    /\ [][
          \/ QuizHasSavedSession
          \/ QuizResumeIfAvailable
          \/ DailyHasSaved
          \/ DailyResumeIfAvailable
          \/ LoadIfAvailable
          \/ CoinsLoad
          \/ LoadUnlocks
       ]_vars

\* The selectors called in any order, on any day, with the seeds "1" and "2:1", the whole
\* pool ("any") or one category, and two questions asked for.
SpecSelect ==
    /\ InitStores
    /\ [][\/ \E seed \in {<<49>>, <<50, 58, 49>>}, c \in {"any", "gk"} :
               CallPickDeterministic(seed, c, 2)
          \/ \E seed \in {<<49>>, <<50, 58, 49>>}, c \in {"any", "gk"} :
               CallGetDailyQuestionSet(seed, c, 2)
          \/ \E seed \in {<<49>>, <<50, 58, 49>>}, c \in {"any", "gk"},
                d \in {"easy", "medium", "hard"} :
               CallGetTournamentQuestionSet(seed, c, d, 2)
          \/ NextDay]_vars

(***************************************************************************)
(* Claims about the coin ledger.                                           *)
(***************************************************************************)

\* C1: add(delta, reason, X) on a ledger whose history already holds an entry
\* with id X changes neither balance, lifetimeEarned, history nor the stored
\* value and raises nothing; after any add with a non-empty id the history
\* holds exactly one entry with that id.
C1_AddExistingIdIsNoOp ==
    [][lastCall'.op = "add" =>
         /\ CountId(coins.history, lastCall'.id) > 0 =>
               (coins' = coins /\ lsCoins' = lsCoins /\ ~lastCall'.threw)
         /\ lastCall'.id # EmptyId => CountId(coins'.history, lastCall'.id) = 1]_vars

\* add(10, reason, "X") was called on a ledger that already held "X" with +10
C1_Witness ==
    /\ lastCall.op = "add" /\ lastCall.id = PlainId("X") /\ lastCall.amount = 10 /\ ~lastCall.ok
    /\ coins.history = <<[id |-> PlainId("X"), delta |-> 10, spend |-> FALSE]>>
    /\ coins.balance = 10 /\ coins.lifetimeEarned = 10

\* C2: within one tournament session the +3 reward of a round number and the +20 completion
\* reward are each credited to the ledger at most once, whatever the number of
\* recordRoundResult / completeTournament calls, loadIfAvailable reloads and page reloads.
C2_RewardsCreditedOnce ==
    \A k \in BagToSet(credited) : CopiesIn(k, credited) <= 1

\* the completion reward was refused on a repeated completeTournament, after a page reload and
\* loadIfAvailable restored the started session whose ten rounds and completion are credited
C2_Witness ==
    /\ lastCall.op = "completeTournament"
    /\ ~lastCall.ok
    /\ tour.isActive
    /\ nextId > tour.sessionId + 1
    /\ CopiesIn(<<tour.epoch, 0>>, credited) = 1
    /\ \A r \in 1..ROUNDS_TOTAL : CopiesIn(<<tour.epoch, r>>, credited) = 1
    /\ CountId(coins.history, CompleteAwardId(tour)) = 1

\* C3: the ledger history never contains two entries with the same id.
C3_NoDuplicateIds ==
    \A i, j \in 1..Len(coins.history) :
        i # j => coins.history[i].id # coins.history[j].id

\* C4: balance equals the sum of delta over all history entries.
C4_BalanceIsSumOfDeltas == coins.balance = SumDeltas(coins.history)

\* a ledger holding an award and a spend was saved, the page reloaded, and load() took it over
C4_Witness ==
    /\ lastCall.op = "load" /\ lastCall.ok
    /\ \E i, j \in 1..Len(coins.history) :
          coins.history[i].delta > 0 /\ coins.history[j].spend

\* C5: a spend(amount, X) repeated after it succeeded records no further entry,
\* leaves balance and lifetimeEarned alone and returns true.
C5_SpendIdempotentById ==
    [][(/\ lastCall'.op = "spend" /\ lastCall'.id # EmptyId
        /\ \E i \in 1..Len(coins.history) :
              coins.history[i] = [id |-> lastCall'.id, delta |-> -lastCall'.amount, spend |-> TRUE])
       => (coins' = coins /\ lastCall'.ok)]_vars

\* C6: submitAnswer with no selection changes nothing and returns not-correct; with a
\* selection the returned flag says whether the selection is the correct option of the current
\* question and the score grows by exactly 1 when it is and stays otherwise, in the standard
\* and in the daily session.
C6_SubmitAnswerScores ==
    [][/\ lastCall'.op = "submitAnswer" =>
            IF quiz.selectedIndex = None
            THEN quiz' = quiz /\ lsSession' = lsSession /\ ~lastCall'.ok
            ELSE /\ HasCurrent(quiz)
                 /\ lastCall'.ok = (quiz.selectedIndex = Current(quiz).answerIndex)
                 /\ quiz'.score = quiz.score +
                       (IF quiz.selectedIndex = Current(quiz).answerIndex THEN 1 ELSE 0)
       /\ lastCall'.op = "daily.submitAnswer" =>
            IF daily.selectedIndex = None
            THEN daily' = daily /\ lsDaily' = lsDaily /\ ~lastCall'.ok
            ELSE /\ DailyHasCurrent(daily)
                 /\ lastCall'.ok = (daily.selectedIndex = DailyCurrent(daily).answerIndex)
                 /\ daily'.score = daily.score +
                       (IF daily.selectedIndex = DailyCurrent(daily).answerIndex THEN 1 ELSE 0)]_vars

\* a wrong answer was just submitted in the daily session and scored nothing, after a correct
\* answer to the first question of the standard session scored 1
C6_Witness ==
    /\ lastCall.op = "daily.submitAnswer" /\ ~lastCall.ok
    /\ daily.hasSubmitted /\ daily.score = 0
    /\ daily.selectedAnswers[DailyCurrent(daily).id] # DailyCurrent(daily).answerIndex
    /\ daily.selectedAnswers[DailyCurrent(daily).id] >= 0
    /\ quiz.hasSubmitted /\ quiz.currentIndex = 0 /\ quiz.score = 1
    /\ quiz.selectedAnswers[Current(quiz).id] = Current(quiz).answerIndex

\* C7: for a fresh session of 3 questions whose first question was answered, resumeIfAvailable
\* over the snapshot the store persisted reproduces currentIndex = 0, the one recorded answer
\* and hasSubmitted = true.
C7_SnapshotRoundTrip ==
    [][(/\ lastCall'.op = "resumeIfAvailable"
        /\ Len(quiz.questions) = 3 /\ quiz.currentIndex = 0 /\ quiz.hasSubmitted
        /\ quiz.selectedAnswers[GkPool[1].id] >= 0
        /\ \A q \in QIds \ {GkPool[1].id} : quiz.selectedAnswers[q] = None
        /\ lsSession = SessionPayload(quiz))
       => (/\ lastCall'.ok
           /\ quiz'.currentIndex = 0
           /\ quiz'.selectedAnswers = quiz.selectedAnswers
           /\ quiz'.hasSubmitted)]_vars

\* C8: a stored session that fails structural validation (a field of the wrong type or
\* missing, no questions, a malformed question, a currentIndex outside the questions) is
\* treated as absent: hasSavedSession and resumeIfAvailable return false and the runtime state
\* is left as it was, in the standard and in the daily session.
C8_InvalidSnapshotIsAbsent ==
    [][/\ (/\ lastCall'.op \in {"hasSavedSession", "resumeIfAvailable"}
           /\ lsSession.present
           /\ ~(/\ lsSession.questionsIsArray /\ lsSession.currentIndexIsNumber
                /\ lsSession.scoreIsNumber /\ lsSession.categoryOk /\ lsSession.timesOk
                /\ lsSession.answersIsObject
                /\ Len(lsSession.questions) > 0
                /\ \A i \in 1..Len(lsSession.questions) : lsSession.questions[i].wellFormed
                /\ lsSession.currentIndex \in 0..(Len(lsSession.questions) - 1)))
          => (~lastCall'.ok /\ quiz' = quiz)
       /\ (/\ lastCall'.op \in {"daily.hasSavedDaily", "daily.resumeIfAvailable"}
           /\ lsDaily.present
           /\ ~(/\ lsDaily.questionsIsArray /\ lsDaily.currentIndexIsNumber
                /\ lsDaily.modeIsDaily
                /\ Len(lsDaily.questions) > 0
                /\ \A i \in 1..Len(lsDaily.questions) : lsDaily.questions[i].wellFormed
                /\ lsDaily.currentIndex \in 0..(Len(lsDaily.questions) - 1)))
          => (~lastCall'.ok /\ daily' = daily)]_vars

\* C9: a stored value without a version field, or with a version that is not accepted, is
\* never loaded by any of the five stores: the read returns false and the runtime state stays
\* as it was constructed.
C9_UnversionedIsAbsent ==
    [][/\ (/\ lastCall'.op \in {"hasSavedSession", "resumeIfAvailable"}
           /\ lsSession.present
           /\ ~(lsSession.hasVersion /\ lsSession.version \in ACCEPTED_SESSION_VERSIONS))
          => (~lastCall'.ok /\ quiz' = QuizInitial)
       /\ (/\ lastCall'.op \in {"daily.hasSavedDaily", "daily.resumeIfAvailable"}
           /\ lsDaily.present
           /\ ~(lsDaily.hasVersion /\ lsDaily.version = DAILY_SESSION_VERSION))
          => (~lastCall'.ok /\ daily' = DailyInitial)
       /\ (/\ lastCall'.op = "loadIfAvailable"
           /\ lsTournament.present
           /\ ~(lsTournament.hasVersion /\ lsTournament.version = TOURNAMENT_VERSION))
          => (~lastCall'.ok /\ tour' = tour)
       /\ (/\ lastCall'.op = "load"
           /\ lsCoins.present
           /\ ~(lsCoins.hasVersion /\ lsCoins.version = COINS_VERSION))
          => (~lastCall'.ok /\ coins' = CoinsInitial)
       /\ (/\ lastCall'.op = "loadUnlocks"
           /\ lsUnlocks.present
           /\ ~(lsUnlocks.hasVersion /\ lsUnlocks.version = UNLOCKS_VERSION))
          => (~lastCall'.ok /\ unlocks' = UnlocksDefault)]_vars

\* C10: once the results view has recorded a completed attempt and cleared the session,
\* hasSavedSession() is false until a new attempt is started.
C10_NoSnapshotAfterResults ==
    finished => ~SafeReadOk(lsSession)


\* C11: currentIndex of a session in memory grows only in a nextQuestion step taken while
\* hasSubmitted is true, and then by exactly 1, with selectedIndex and hasSubmitted cleared
\* and true returned; nextQuestion without a submitted answer, or on the last question,
\* returns false and changes no state; in the standard and in the daily session.
C11_IndexAdvancesAfterSubmit ==
    [][/\ lastCall'.op = "nextQuestion" =>
            IF quiz.hasSubmitted /\ ~IsLast(quiz)
            THEN /\ quiz'.currentIndex = quiz.currentIndex + 1
                 /\ quiz'.selectedIndex = None /\ ~quiz'.hasSubmitted /\ lastCall'.ok
            ELSE quiz' = quiz /\ lsSession' = lsSession /\ ~lastCall'.ok
       /\ (quiz.questions # <<>> /\ quiz'.questions = quiz.questions
             /\ quiz'.currentIndex > quiz.currentIndex)
            => lastCall'.op = "nextQuestion" /\ quiz.hasSubmitted
       /\ lastCall'.op = "daily.nextQuestion" =>
            IF daily.hasSubmitted /\ daily.currentIndex < Len(daily.questions) - 1
            THEN /\ daily'.currentIndex = daily.currentIndex + 1
                 /\ daily'.selectedIndex = None /\ ~daily'.hasSubmitted /\ lastCall'.ok
            ELSE daily' = daily /\ lsDaily' = lsDaily /\ ~lastCall'.ok
       /\ (daily.questions # <<>> /\ daily'.questions = daily.questions
             /\ daily'.currentIndex > daily.currentIndex)
            => lastCall'.op = "daily.nextQuestion" /\ daily.hasSubmitted]_vars

\* nextQuestion just moved the standard session to its second question, and the daily
\* session is on its second question too
C11_Witness ==
    /\ lastCall.op = "nextQuestion" /\ lastCall.ok
    /\ quiz.currentIndex = 1 /\ ~quiz.hasSubmitted /\ quiz.selectedIndex = None
    /\ daily.currentIndex = 1 /\ ~daily.hasSubmitted


\* C12: within one session a lifeline flag that is true stays true under every operation of
\* its store, persisting and resuming included, until a new attempt resets the runtime
\* (StartView.start() for the quiz, prepareToday() for the daily quiz).
C12_LifelineFlagsMonotonic ==
    [][/\ lastCall'.op # "loadQuestions" =>
            \A f \in DOMAIN quiz.lifelines : quiz.lifelines[f] => quiz'.lifelines[f]
       /\ lastCall'.op # "daily.prepareToday" =>
            \A f \in DOMAIN daily.lifelines : daily.lifelines[f] => daily'.lifelines[f]]_vars

\* a quiz session that used its four lifelines was left and has just been resumed
C12_Witness ==
    /\ lastCall.op = "resumeIfAvailable" /\ lastCall.ok
    /\ \A f \in DOMAIN quiz.lifelines : quiz.lifelines[f]

\* C13: in every reachable state the options hidden for a question never include its
\* correct option, in the quiz store, the daily store and their snapshots, and neither does
\* a hidden set useFiftyFifty() returns.
C13_CorrectOptionNeverHidden ==
    /\ \A i \in 1..Len(quiz.questions) :
          quiz.questions[i].answerIndex \notin quiz.fiftyFiftyHidden[quiz.questions[i].id]
    /\ \A i \in 1..Len(lsSession.questions) :
          lsSession.questions[i].answerIndex
             \notin lsSession.fiftyFiftyHidden[lsSession.questions[i].id]
    /\ \A i \in 1..Len(daily.questions) :
          daily.questions[i].answerIndex \notin daily.fiftyFiftyHidden[daily.questions[i].id]
    /\ \A i \in 1..Len(lsDaily.questions) :
          lsDaily.questions[i].answerIndex
             \notin lsDaily.fiftyFiftyHidden[lsDaily.questions[i].id]
    /\ (lastCall.op = "useFiftyFifty" /\ lastCall.ok)
          => Current(quiz).answerIndex \notin lastCall.hidden
    /\ (lastCall.op = "daily.useFiftyFifty" /\ lastCall.ok)
          => DailyCurrent(daily).answerIndex \notin lastCall.hidden

\* useFiftyFifty() has just hidden two options of the second question of a quiz, the
\* player having selected a wrong option of it
C13_Witness ==
    /\ lastCall.op = "useFiftyFifty" /\ lastCall.ok
    /\ quiz.currentIndex = 1
    /\ quiz.selectedIndex \notin {None, Current(quiz).answerIndex}
    /\ Cardinality(lastCall.hidden) = 2
    /\ quiz.fiftyFiftyHidden[Current(quiz).id] = lastCall.hidden

\* C14: useFiftyFifty() called on a question that already has hidden options returns that
\* same hidden set again, and the options stay hidden, in both stores.
C14_FiftyFiftyIdempotent ==
    [][/\ (lastCall'.op = "useFiftyFifty" /\ HasCurrent(quiz)
             /\ quiz.fiftyFiftyHidden[Current(quiz).id] # {})
            => /\ lastCall'.hidden = quiz.fiftyFiftyHidden[Current(quiz).id]
               /\ quiz'.fiftyFiftyHidden = quiz.fiftyFiftyHidden
       /\ (lastCall'.op = "daily.useFiftyFifty" /\ DailyHasCurrent(daily)
             /\ daily.fiftyFiftyHidden[DailyCurrent(daily).id] # {})
            => /\ lastCall'.hidden = daily.fiftyFiftyHidden[DailyCurrent(daily).id]
               /\ daily'.fiftyFiftyHidden = daily.fiftyFiftyHidden]_vars

\* C15: useAskHint() with the hint lifeline already used, or on a question without hint
\* text, returns not-ok and changes no state, in both stores.
C15_AskHintNeedsHintText ==
    [][/\ (lastCall'.op = "useAskHint" /\ HasCurrent(quiz)
             /\ (quiz.lifelines.askHintUsed \/ ~Current(quiz).hasHint))
            => ~lastCall'.ok /\ quiz' = quiz /\ lsSession' = lsSession
       /\ (lastCall'.op = "daily.useAskHint" /\ DailyHasCurrent(daily)
             /\ (daily.lifelines.askHintUsed \/ ~DailyCurrent(daily).hasHint))
            => ~lastCall'.ok /\ daily' = daily /\ lsDaily' = lsDaily]_vars


\* C16: every question load eventually leaves Loading with a non-empty question list,
\* whether the source succeeds, fails, returns bad or empty data, or times out.
C16_LoadEventuallyActive ==
    quiz.loading ~> (~quiz.loading /\ quiz.questions # <<>>)


\* C17: a daily snapshot whose stored date is not today's date key is never resumed:
\* hasSavedDaily() is false, resumeIfAvailable() returns false and leaves the daily store
\* as it was, and a snapshot readSession() accepts is removed from storage by the call.
C17_StaleDailyNotResumed ==
    [][(lsDaily.present /\ lsDaily.dailyDate # todayKey) =>
          /\ lastCall'.op = "daily.hasSavedDaily" => ~lastCall'.ok
          /\ lastCall'.op = "daily.resumeIfAvailable" =>
                /\ ~lastCall'.ok
                /\ daily' = daily
                /\ ReadSessionOk(lsDaily) => lsDaily' = DailyAbsent]_vars

\* resumeIfAvailable() has just refused the stored snapshot of another day and removed it
C17_Witness ==
    /\ route = "daily"
    /\ lastCall.op = "daily.resumeIfAvailable" /\ ~lastCall.ok
    /\ ~lsDaily.present
    /\ daily = DailyInitial


\* C18: completing the daily quiz of day D sets the streak to priorStreak + 1 when the last
\* completion was on day D-1, leaves it at priorStreak when the last completion was on day
\* D itself, and sets it to 1 when there was no completion yet or the last one lies further
\* back; the store, the persisted meta and the scoreboard entry all carry that streak.
C18_StreakOnCompletion ==
    [][lastCall'.op = "daily.completeAndRecordScore" =>
          LET D == daily.dailyDate
              L == lsDailyMeta.lastCompletedDate
              P == lsDailyMeta.streakCount
              expected == IF L = NoDate THEN 1
                          ELSE IF L = D THEN P
                          ELSE IF L = D - 1 THEN P + 1
                          ELSE 1
          IN /\ lsDailyMeta'.streakCount = expected
             /\ lsDailyMeta'.lastCompletedDate = D
             /\ daily'.streakCount = expected
             /\ Head(scores').streakAtCompletion = expected]_vars

\* day 3 has just been completed after day 1 and not day 2: the streak is back at 1
C18_Witness ==
    /\ lastCall.op = "daily.completeAndRecordScore"
    /\ Len(scores) = 2
    /\ scores[1].dateKey = 3 /\ scores[2].dateKey = 1
    /\ scores[1].streakAtCompletion = 1 /\ lsDailyMeta.streakCount = 1

\* C19: one calendar day produces at most one scoreboard entry and at most one record of a
\* streak milestone, however the auto-advance timer, repeated continue clicks on the last
\* question and replays of the daily quiz on that day interleave.
C19_OneCompletionPerDay ==
    \A i, j \in 1..Len(scores) : scores[i].dateKey = scores[j].dateKey => i = j


SpecCounts ==
    /\ InitStores
    /\ [][
          \/ \E cat \in {"any", "gk"}, n \in {-1, 0, 2} :
                 CallPickDeterministic(<<49>>, cat, n)
          \/ \E cat \in {"any", "gk"}, n \in {-1, 0, 2} :
                 CallGetDailyQuestionSet(<<49>>, cat, n)
          \/ \E cat \in {"any", "gk"}, n \in {-1, 0, 2} :
                 CallGetTournamentQuestionSet(<<49>>, cat, "hard", n)
       ]_vars

\* C21: every selector call made with a count of zero or less returned the empty list
C21_NonPositiveCountGivesEmpty ==
    \A i \in 1..Len(selector) : selector[i].count <= 0 => selector[i].out = <<>>

(***************************************************************************)
(* Category unlocks evaluated after results, and custom quizzes.          *)
(***************************************************************************)
\* the unlock store evaluated directly and by the results view; the quizzes played are
\* library quizzes
SpecUnlocks ==
    /\ InitStores
    /\ [][
          \/ \E cat \in DOMAIN DefaultPrereqs, acc \in {0, 79, 80, 100},
                mode \in {"normal", "daily", "multiplayer"} :
                 EvaluateUnlocksFromScore(cat, acc, mode)
          \/ LoadUnlocks
          \/ StartCustomQuiz
          \/ \E i \in SelectInputs : QuizSelectOption(i)
          \/ QuizSubmitAnswer
          \/ QuizNextQuestion
          \/ ResultsMounted
          \/ RestartQuiz
       ]_vars

\* C22: no call of evaluateUnlocksFromScore, whatever the played category, the mode and the
\* accuracy, locks a category that was unlocked before the call
C22_UnlockingIsMonotonic ==
    [][lastCall'.op = "evaluateUnlocksFromScore"
         => unlocks.unlocked \subseteq unlocks'.unlocked]_vars

\* science is unlocked after a call with accuracy 0 that unlocked nothing: it was unlocked
\* before the call and the call left it so
C22_Witness ==
    /\ lastCall.op = "evaluateUnlocksFromScore" /\ lastCall.ok
    /\ lastCall.amount = 0 /\ lastCall.hidden = {}
    /\ "science" \in unlocks.unlocked

\* C23: every unlocked category has all the categories of its prerequisite list unlocked
C23_UnlockedHavePrerequisites ==
    \A c \in unlocks.unlocked : DefaultPrereqs[c] \subseteq unlocks.unlocked

\* geography was played above the threshold while locked, and the call is over
C23_Witness ==
    /\ lastCall.op = "evaluateUnlocksFromScore" /\ lastCall.ok
    /\ lastCall.id = PlainId("geography") /\ lastCall.amount >= unlocks.scorePercent
    /\ "geography" \notin lastCall.hidden
    /\ lastCall.hidden # {}
    /\ "geography" \in unlocks.unlocked

\* C24: the list evaluateUnlocksFromScore returns holds exactly the categories that were
\* locked before the call and are unlocked after it
C24_ReturnsNewlyUnlocked ==
    [][lastCall'.op = "evaluateUnlocksFromScore"
         => lastCall'.hidden = unlocks'.unlocked \ unlocks.unlocked]_vars

\* C25: arriving on the results screen of a custom quiz leaves every category's unlocked
\* flag as it was
C25_CustomQuizKeepsUnlocks ==
    [][lastCall'.op = "resultsMounted" => unlocks'.unlocked = unlocks.unlocked]_vars

(***************************************************************************)
(* computeMedals on the totals of ten recorded rounds of ten questions.    *)
(***************************************************************************)
\* an active tournament whose ten rounds are recorded: k of them with w wrong answers, the
\* others without; the questions took 6000 ms each, or 5000, or those of the last round
\* 6010 (a mean of 6001), or were not timed, or those of the last round (or of every round)
\* are not finite
InitMedals ==
    \E k \in 0..ROUNDS_TOTAL, w \in {1, 3},
       times \in {"6000", "5000", "6001", "none", "partly", "never"} :
       LET dur(r) == IF times = "none" THEN <<>>
                     ELSE [i \in 1..10 |->
                             IF times = "5000" THEN 5000
                             ELSE IF times = "6001" /\ r = ROUNDS_TOTAL THEN 6010
                             ELSE IF times = "partly" /\ r = ROUNDS_TOTAL THEN -1
                             ELSE IF times = "never" THEN -1
                             ELSE 6000]
           stat(r) == [round |-> r, correct |-> IF r <= k THEN 10 - w ELSE 10,
                       wrong |-> IF r <= k THEN w ELSE 0, skipped |-> 0,
                       durations |-> dur(r),
                       accuracyPct |-> AccuracyPct(IF r <= k THEN 10 - w ELSE 10,
                                                   IF r <= k THEN w ELSE 0)]
           stats == [r \in 1..ROUNDS_TOTAL |-> stat(r)]
       IN /\ k = 0 => w = 1
          /\ tour = [TourFresh(1, 2) EXCEPT !.isActive = TRUE, !.hasPlayers = TRUE,
                                            !.currentRound = ROUNDS_TOTAL - 1,
                                            !.roundStats = stats,
                                            !.playerScore = SumField(stats, "correct")]
          /\ lsTournament = TourPersisted(tour)
          /\ nextId = 2
          /\ pendingMedals = <<>>
          /\ credited = EmptyBag
          /\ coins = CoinsInitial
          /\ lsCoins = CoinsAbsent
          /\ quiz = QuizInitial
          /\ lsSession = SessionAbsent
          /\ finished = FALSE
          /\ todayKey = 1
          /\ daily = DailyInitial
          /\ lsDaily = DailyAbsent
          /\ lsDailyMeta = DailyMetaAbsent
          /\ scores = <<>>
          /\ dailyTimers = [autoNext |-> FALSE, confetti |-> FALSE]
          /\ unlocks = UnlocksDefault
          /\ lsUnlocks = UnlocksAbsent
          /\ selector = <<>>
          /\ mp = [playerId |-> "", players |-> [p \in {} |-> 0], submissions |-> <<>>, questions |-> <<>>]
          /\ draft = [id |-> NoId, title |-> "", questions |-> <<>>]
          /\ library = [quizzes |-> <<>>, loaded |-> FALSE]
          /\ lsLibrary = <<>>
          /\ route = "start"
          /\ lastCall = Call("init", EmptyId, 0, TRUE)

SpecMedals ==
    /\ InitMedals
    /\ [][
          \/ PlayCompleteTournament
          \/ MedalsResolved
       ]_vars

\* C26: the medals set when a completed tournament's medals resolve hold Diamond exactly
\* when at least 95 of 100 answers were correct and the finite durations have a mean of at
\* most 6000 ms; there is no Diamond without a finite duration, and with a mean of 6001 ms
\* at 95 of 100 there is Gold without Diamond
C26_DiamondBoundsInclusive ==
    LET correct == SumField(tour.roundStats, "correct")
        wrong == SumField(tour.roundStats, "wrong")
        finite == SelectSeq(FlatDurations(tour.roundStats), LAMBDA d : d >= 0)
        medals == {tour.medalsEarned[i] : i \in 1..Len(tour.medalsEarned)}
    IN lastCall.op = "medalsResolved" =>
         /\ "Diamond" \in medals <=>
              /\ 100 * correct >= 95 * (correct + wrong)
              /\ finite # <<>>
              /\ SumSeq(finite) <= 6000 * Len(finite)
         /\ finite = <<>> => "Diamond" \notin medals
         /\ (correct = 95 /\ wrong = 5 /\ Len(finite) = 100 /\ SumSeq(finite) = 600100)
              => "Gold" \in medals /\ "Diamond" \notin medals

\* 95 correct and 5 wrong answers with a mean of exactly 6000 ms earned Diamond
C26_Witness ==
    /\ lastCall.op = "medalsResolved"
    /\ SumField(tour.roundStats, "correct") = 95 /\ SumField(tour.roundStats, "wrong") = 5
    /\ SumField(tour.roundStats, "skipped") = 0
    /\ Len(FlatDurations(tour.roundStats)) = 100
    /\ SumSeq(FlatDurations(tour.roundStats)) = 600000
    /\ \E i \in 1..Len(tour.medalsEarned) : tour.medalsEarned[i] = "Diamond"

(***************************************************************************)
(* A tournament played round after round in the play view.                 *)
(***************************************************************************)
SpecPlay ==
    /\ InitStores
    /\ [][
          \/ StartTournament("gk")
          \/ \E m \in {[correct |-> 9, wrong |-> 1, skipped |-> 0, durations |-> <<5000, 7000>>]} :
                 ContinueToNext(m)
          \/ MedalsResolved
          \/ LoadIfAvailable
       ]_vars

\* C27: a tournament the play view completed has the results of all its rounds recorded,
\* and the medals resolved for it hold Bronze
C27_CompletedAfterAllRounds ==
    tour.completed =>
        /\ Len(tour.roundStats) = tour.roundsTotal
        /\ lastCall.op = "medalsResolved"
             => \E i \in 1..Len(tour.medalsEarned) : tour.medalsEarned[i] = "Bronze"

(***************************************************************************)
(* One question of a multiplayer game, answered by three players.          *)
(***************************************************************************)
SpecMultiplayer ==
    /\ InitStores
    /\ [][
          \/ WsRoomJoined
          \/ \E a \in {0, 1}, ts \in 1..MaxTs : MpSubmitAnswer(a, ts)
          \/ \E p \in {"p1", "p2", "p3"}, c \in BOOLEAN, ts \in 1..MaxTs :
                 WsSubmission([playerId |-> p, questionIndex |-> 0, correct |-> c, ts |-> ts])
       ]_vars

\* C28: a player without a correct submission for the question has no points; of the others
\* exactly one has FULL_POINTS, a player whose correct submission carries the earliest
\* timestamp, and the rest have REDUCED_POINTS
C28_FastestCorrectScoring ==
    LET subs == mp.submissions
        correctOnes == {i \in 1..Len(subs) : subs[i].correct}
        earliest == {i \in correctOnes : \A j \in correctOnes : subs[i].ts <= subs[j].ts}
        HasCorrect(p) == \E i \in correctOnes : subs[i].playerId = p
    IN /\ \A p \in DOMAIN mp.players :
             /\ ~HasCorrect(p) => mp.players[p] = 0
             /\ HasCorrect(p) => mp.players[p] \in {FULL_POINTS, REDUCED_POINTS}
             /\ mp.players[p] = FULL_POINTS => \E i \in earliest : subs[i].playerId = p
       /\ correctOnes # {}
            => Cardinality({p \in DOMAIN mp.players : mp.players[p] = FULL_POINTS}) = 1

\* C29: no reader of a stored value raises: hasSavedSession, resumeIfAvailable, the daily
\* readers, loadIfAvailable, the coins load() and loadUnlocks() all return
C29_ReadNeverRaises ==
    ~lastCall.threw

(***************************************************************************)
(* The coin ledger over a storage that is full at times.                   *)
(***************************************************************************)
SpecQuota ==
    /\ InitStores
    /\ [][
          \/ \E d \in {-2, 3, 10}, id \in CoinIdsUsed \cup {PlainId("Z")} : CoinsAdd(d, id)
          \/ \E d \in {-2, 3, 10}, id \in CoinIdsUsed \cup {PlainId("Z")} :
                 CoinsAddQuotaExceeded(d, id)
       ]_vars

\* C30: an add() whose write to storage failed returned to its caller, and the ledger in
\* memory holds the entry
C30_WriteFailureSwallowed ==
    [][(lastCall'.op = "add" /\ lsCoins' = lsCoins /\ lastCall'.id # EmptyId
          /\ ~HasEntry(coins.history, lastCall'.id))
         => ~lastCall'.threw /\ HasEntry(coins'.history, lastCall'.id)]_vars

\* C31: an operation called when it does not apply is a no-op that returns a failure outcome
\* and never raises; for startNextRound() on a tournament that is inactive or completed:
\* the call returned
C31_InvalidCallReturnsFailure ==
    lastCall.op = "startNextRound" => ~lastCall.threw

(***************************************************************************)
(* The standard quiz and a custom quiz played in turn from the start view.  *)
(***************************************************************************)
SpecModes ==
    /\ InitStores
    /\ [][
          \/ StartQuiz
          \/ \E i \in 0..1 : QuizSelectOption(i)
          \/ QuizSubmitAnswer
          \/ QuizNextQuestion
          \/ ExitQuiz
          \/ StartCustomQuiz
       ]_vars

\* C32: each mode owns its storage key: opening a custom quiz leaves the snapshot saved
\* under the standard quiz's key as it was
C32_CustomPlayKeepsStandardSnapshot ==
    [][lastCall'.op = "customPlay" => lsSession' = lsSession]_vars

\* C33: a timer tick changes state only while a session is active: a tick on a session whose
\* results were recorded and whose snapshot was cleared changes neither the runtime state nor
\* the stored snapshot
C33_NoTickAfterCompletion ==
    [][(finished /\ lastCall'.op = "tickTimer") => (quiz' = quiz /\ lsSession' = lsSession)]_vars

\* C34: the score of a session equals the number of its questions whose recorded answer in
\* selectedAnswers is the correct option; no question is counted twice and a skipped
\* question counts nothing; in the standard and in the daily session
C34_ScoreCountsCorrectAnswers ==
    /\ quiz.score = Cardinality({i \in 1..Len(quiz.questions) :
            quiz.selectedAnswers[quiz.questions[i].id] = quiz.questions[i].answerIndex})
    /\ daily.score = Cardinality({i \in 1..Len(daily.questions) :
            daily.selectedAnswers[daily.questions[i].id] = daily.questions[i].answerIndex})

\* C35: the current index of a session lies inside its questions, 0 <= currentIndex <
\* len(questions), after a resume from any snapshot the reader accepts, in the standard and
\* in the daily session
C35_CurrentIndexInRange ==
    /\ (lastCall.op = "resumeIfAvailable" /\ lastCall.ok)
          => quiz.currentIndex \in 0..(Len(quiz.questions) - 1)
    /\ (lastCall.op = "daily.resumeIfAvailable" /\ lastCall.ok)
          => daily.currentIndex \in 0..(Len(daily.questions) - 1)

\* C36: a locked category is unlocked only by a result that reaches the threshold in its
\* prerequisite: a call of evaluateUnlocksFromScore with an accuracy below the threshold
\* unlocks nothing
C36_BelowThresholdUnlocksNothing ==
    [][(lastCall'.op = "evaluateUnlocksFromScore" /\ lastCall'.amount < unlocks.scorePercent)
         => unlocks'.unlocked = unlocks.unlocked]_vars

(***************************************************************************)
(* The selectors called with the seeds "1" and "z7li5e"; seededHash of the  *)
(* latter is 0x5e6cfce7, from which the generator steps to 0xffffffff.      *)
(***************************************************************************)
SpecSwaps ==
    /\ InitStores
    /\ [][
          \/ \E seed \in {<<49>>, <<122, 55, 108, 105, 53, 101>>}, cat \in {"any", "gk"},
                n \in {2, 3} : CallPickDeterministic(seed, cat, n)
          \/ \E seed \in {<<49>>, <<122, 55, 108, 105, 53, 101>>}, cat \in {"any", "gk"},
                n \in {2, 3} : CallGetDailyQuestionSet(seed, cat, n)
          \/ \E seed \in {<<49>>, <<122, 55, 108, 105, 53, 101>>}, cat \in {"any", "gk"},
                n \in {2, 3} : CallGetTournamentQuestionSet(seed, cat, "hard", n)
       ]_vars

\* C37: a selector called with a count of zero or more returned questions of distinct
\* indices of its source and no undefined item, and prepareToday's and the daily selector
\* returned exactly min(count, len(source)) of them
C37_SelectorsReturnDistinctItems ==
    \A i \in 1..Len(selector) :
       selector[i].count >= 0 =>
          /\ \A k \in 1..Len(selector[i].out) : selector[i].out[k] # "undefined"
          /\ \A k, l \in 1..Len(selector[i].out) :
                k # l => selector[i].out[k] # selector[i].out[l]
          /\ selector[i].fn \in {"pickDeterministic", "getDailyQuestionSet"}
                => Len(selector[i].out)
                      = Min(selector[i].count, Len(PoolOf(selector[i].category)))

\* C38: medalsEarned of a tournament is set only from that tournament's own completion: a
\* tournament that holds medals is completed
C38_MedalsOnlyFromOwnCompletion ==
    tour.medalsEarned # <<>> => tour.completed

(***************************************************************************)
(* A tournament played in the play view, the page reloaded at any moment.   *)
(* A pending import resolves if nothing drops it, and the tournament views  *)
(* load the persisted tournament when they mount.                           *)
(***************************************************************************)
SpecReload ==
    /\ InitStores
    /\ [][
          \/ StartTournament("gk")
          \/ \E m \in { [correct |-> 9, wrong |-> 1, skipped |-> 0, durations |-> <<5000, 7000>>] } : ContinueToNext(m)
          \/ MedalsResolved
          \/ LoadIfAvailable
          \/ PageReload
       ]_vars
    /\ WF_vars(MedalsResolved)
    /\ WF_vars(LoadIfAvailable)

\* C39: a tournament persisted as completed eventually has its medals persisted (or is
\* replaced by a new tournament), a page reload right after completeTournament() included;
\* the rounds played here earn Silver and Gold at least
C39_CompletedEventuallyHasMedals ==
    (lsTournament.present /\ lsTournament.state.completed)
       ~> (\/ lsTournament.state.medalsEarned # <<>>
           \/ ~lsTournament.state.completed)

(***************************************************************************)
(* The custom quiz editor: quizzes of one or two questions written, saved   *)
(* and saved again after a change.                                          *)
(***************************************************************************)
SpecLibrary ==
    /\ InitStores
    /\ [][
          \/ EditorInit
          \/ \E title \in {"", "Capitals"},
                options \in {<<"Paris", "Rome">>, <<"", "Paris", "Rome">>,
                             <<"Paris", "", "Rome">>, <<"Paris", "Rome", "">>},
                correctIndex \in 0..2, more \in BOOLEAN :
                 EditDraft(title,
                           <<[id |-> 1, text |-> "Capital of France?", options |-> options,
                              correctIndex |-> correctIndex]>>
                           \o (IF more
                               THEN <<[id |-> 2, text |-> "Capital of Italy?",
                                       options |-> <<"Paris", "Rome">>, correctIndex |-> 1]>>
                               ELSE <<>>))
          \/ EditorSave
       ]_vars

\* C40: sanitizeQuiz keeps the author's answer key: in the quiz a save of the editor wrote to
\* the library, the option at the stored correctIndex of a question is the option the form
\* marked correct for that question, where the form marked an option that is filled in
C40_SanitizeKeepsAnswerKey ==
    [][(lastCall'.op = "editor.save" /\ lastCall'.ok) =>
          \A s \in 1..Len(library'.quizzes) :
             library'.quizzes[s].id = draft'.id =>
                \A k \in 1..Len(library'.quizzes[s].questions) :
                   \A j \in 1..Len(draft.questions) :
                      (/\ draft.questions[j].id = library'.quizzes[s].questions[k].id
                       /\ draft.questions[j].options[draft.questions[j].correctIndex + 1] # "")
                      =>
                         library'.quizzes[s].questions[k].options[
                               library'.quizzes[s].questions[k].correctIndex + 1]
                            = draft.questions[j].options[draft.questions[j].correctIndex + 1]]_vars

=========================================================================
